---------------------------- MODULE Spec2Model ----------------------------
(***************************************************************************)
(* PGM2 driver (src/mame/drivers/pgm2.cpp): the memory-mapped handlers of  *)
(* the "MPU" protocol emulation, the dual-bank share RAM, the completion   *)
(* timer, the program-ROM decrypt trigger, the sprite key register, the    *)
(* speed-up read handlers, the region transforms of DRIVER_INIT, machine   *)
(* reset and save states, as a state machine.                              *)
(*                                                                         *)
(* Time is counted in microseconds: attotime::from_msec(n) is n * 1000,    *)
(* attotime::from_usec(n) is n.                                            *)
(***************************************************************************)
EXTENDS Integers, Sequences, FiniteSets, TLC

VARIABLES
    mcu_regs,          \* m_mcu_regs[8], 32-bit each
    mcu_result0,       \* m_mcu_result0
    mcu_result1,       \* m_mcu_result1
    mcu_last_cmd,      \* m_mcu_last_cmd
    shareram,          \* m_shareram[0x100]
    share_bank,        \* m_share_bank, 16-bit
    cards,             \* m_memcard_device[4]
    mcu_timer,         \* m_mcu_timer: microseconds until it fires, -1 when not armed
    encryption_table,  \* m_encryption_table[0x100]
    has_decrypted,     \* m_has_decrypted
    rom,               \* memregion("user1"), as 16-bit words
    since_arm,         \* observer: microseconds elapsed since m_mcu_timer was last adjusted
    armer,             \* observer: what adjusted m_mcu_timer last
    last_op,           \* observer: the handler that ran last, with its inputs
    irq_raised,        \* observer: the interrupt number the last step gave to set_irq, 0 if none
    log_lines,         \* observer: logerror calls made by the last step
    mcu_touched,       \* observer: m_shareram indices the last mcu_command read or wrote
    read_value,        \* observer: the value the last read handler returned
    ack_due,           \* observer: a command was issued and register 5 not strobed since
    triggered,         \* observer: encryption_do_w has been called
    steps,             \* observer: number of main-processor accesses so far
    spritekey,         \* m_spritekey, 32-bit
    realspritekey,     \* m_realspritekey, 32-bit
    sprite_predecrypted, \* m_sprite_predecrypted
    mainram,           \* m_mainram, the words the speed-up handlers watch
    title,             \* the DRIVER_INIT of the running set
    snapshot,          \* the save state last written: the save_item members
    spinning,          \* the main processor is suspended until the next interrupt
    passes,            \* observer: decrypter_rom passes made over memregion("user1")
    arms,              \* observer: number of m_mcu_timer->adjust calls
    fires,             \* observer: number of igs_interrupt2 callbacks
    sprites_mask,      \* memregion("sprites_mask"), as 16-bit words
    sprites_colour,    \* memregion("sprites_colour"), as 16-bit words
    init_log           \* observer: the region transforms DRIVER_INIT has run, in order

vars == <<mcu_regs, mcu_result0, mcu_result1, mcu_last_cmd, shareram, share_bank,
          cards, mcu_timer, encryption_table, has_decrypted, rom, since_arm, armer,
          last_op, irq_raised, log_lines, mcu_touched, read_value, ack_due, triggered,
          steps, spritekey, realspritekey, sprite_predecrypted, mainram, title,
          snapshot, spinning, passes, arms, fires, sprites_mask, sprites_colour,
          init_log>>

mcuVars == <<mcu_regs, mcu_result0, mcu_result1, mcu_last_cmd>>
timerVars == <<mcu_timer, since_arm, armer, arms>>
cryptVars == <<encryption_table, has_decrypted, rom>>
spriteVars == <<spritekey, realspritekey, sprite_predecrypted>>
regionVars == <<sprites_mask, sprites_colour, init_log>>
machineVars == <<title, mainram, snapshot, regionVars>>

-----------------------------------------------------------------------------
(* Bounds of the exploration *)

\* main-processor accesses explored from the initial state
MaxSteps == 3

\* 16-bit words of program ROM modelled
RomWords == 2

\* the observers arms, fires and passes stop counting here
MaxCount == 4

\* main-processor accesses explored in the runs that follow one protocol exchange
MaxDeep == 5

-----------------------------------------------------------------------------
(* Machine words *)

(* A 32-bit word is the tuple of its four bytes, least significant first; a  *)
(* 16-bit word and a byte are numbers.                                        *)

Pow2(n) == 2 ^ n
Word16 == 2 ^ 16

\* the word whose bytes are b3 b2 b1 b0, most significant first as in a hex literal
W32(b3, b2, b1, b0) == <<b0, b1, b2, b3>>

\* a uint8_t widened to 32 bits
Widen(b) == <<b, 0, 0, 0>>

\* a uint16_t widened to 32 bits
Widen16(h) == <<h % 256, h \div 256, 0, 0>>

Zero32 == Widen(0)

\* Bitwise operators on n-bit numbers, bit by bit from the least significant one;
\* the recursion stops as soon as an operand decides the remaining bits.
RECURSIVE BitAnd(_, _, _)
BitAnd(a, b, n) ==
    IF n = 0 \/ a = 0 \/ b = 0 THEN 0
    ELSE IF a = b \/ b = Pow2(n) - 1 THEN a
    ELSE IF a = Pow2(n) - 1 THEN b
    ELSE (IF a % 2 = 1 /\ b % 2 = 1 THEN 1 ELSE 0) + 2 * BitAnd(a \div 2, b \div 2, n - 1)

RECURSIVE BitOr(_, _, _)
BitOr(a, b, n) ==
    IF n = 0 THEN 0
    ELSE IF a = 0 \/ a = b THEN b
    ELSE IF b = 0 THEN a
    ELSE (IF a % 2 = 1 \/ b % 2 = 1 THEN 1 ELSE 0) + 2 * BitOr(a \div 2, b \div 2, n - 1)

RECURSIVE BitXor(_, _, _)
BitXor(a, b, n) ==
    IF n = 0 \/ a = b THEN 0
    ELSE IF a = 0 THEN b
    ELSE IF b = 0 THEN a
    ELSE (IF a % 2 # b % 2 THEN 1 ELSE 0) + 2 * BitXor(a \div 2, b \div 2, n - 1)

And32(a, b) == [k \in 1 .. 4 |-> BitAnd(a[k], b[k], 8)]
Or32(a, b) == [k \in 1 .. 4 |-> BitOr(a[k], b[k], 8)]
Not32(a) == [k \in 1 .. 4 |-> 255 - a[k]]

\* COMBINE_DATA(&var): var = (var & ~mem_mask) | (data & mem_mask)
CombineData32(old, data, mem_mask) ==
    Or32(And32(old, Not32(mem_mask)), And32(data, mem_mask))

CombineData16(old, data, mem_mask) ==
    BitOr(BitAnd(old, (Word16 - 1) - mem_mask, 16), BitAnd(data, mem_mask, 16), 16)

\* (uint8_t)(w >> sh), sh a multiple of 8
ByteAt(w, sh) == w[(sh \div 8) + 1]

-----------------------------------------------------------------------------
(* Memory cards: pgm2_memcard_device, through present(), read() and write().  *)
(* A card is a record; data holds the bytes written or loaded so far, every   *)
(* other offset reads as CardFill.                                            *)

CardFill == 255

NoCard == [present |-> FALSE, data |-> <<>>]

\* a formatted card image with four distinguishable bytes at offsets 0..3
CardImage == [present |-> TRUE, data |-> (0 :> 16) @@ (1 :> 17) @@ (2 :> 18) @@ (3 :> 19)]

\* m_memcard_device[slot]->present() != -1
CardPresent(card) == card.present

\* m_memcard_device[slot]->read(space, offset)
CardRead(card, offset) ==
    IF offset \in DOMAIN card.data THEN card.data[offset] ELSE CardFill

\* m_memcard_device[slot]->write(space, offset, data)
CardWrite(card, offset, data) ==
    [card EXCEPT !.data = (offset :> data) @@ card.data]

SlotOf(arg1) == arg1 % 4

-----------------------------------------------------------------------------
(* Share RAM addressing *)

\* m_share_bank & 1
CpuBank(bank) == bank % 2

\* ~m_share_bank & 1 (the operand is promoted to int before the complement)
McuBank(bank) == ((-bank) - 1) % 2

\* mcu_command indexing with the selector as the main processor does
McuIndex_CpuSide(i, bank) == i + CpuBank(bank) * 128

\* mcu_command: i + (~m_share_bank & 1) * 128
McuIndex(i, bank) == i + McuBank(bank) * 128

\* the main-processor accessors indexing with the complemented selector
CpuIndex_McuSide(offset, bank) == offset + McuBank(bank) * 128

\* shareram_r / shareram_w: offset + (m_share_bank & 1) * 128
CpuIndex(offset, bank) == offset + CpuBank(bank) * 128

\* indices inside m_shareram[0x100]
ShareIndices == 0 .. 255

-----------------------------------------------------------------------------
(* mcu_command(space, true): the fields of the command word *)

\* the command byte taken from the second byte of register 0
CmdOf_Arg1(regs) == ByteAt(regs[0], 8)

CmdOf(regs) == ByteAt(regs[0], 0)
Arg1Of(regs) == ByteAt(regs[0], 8)
Arg2Of(regs) == ByteAt(regs[0], 16)
Arg3Of(regs) == ByteAt(regs[0], 24)

CardCmds == {192, 193, 194, 195, 196, 197, 198, 199, 200, 201}
KnownCmds == {246, 224, 225} \cup CardCmds

\* the default case leaving the status at "accepted"
CmdStatus_DefaultAccepted(cmd, arg1, cs) ==
    IF cmd = 192 THEN (IF ~CardPresent(cs[SlotOf(arg1)]) THEN 244 ELSE 247)
    ELSE 247

\* case 0xc0 with the presence test inverted
CmdStatus_PresenceInverted(cmd, arg1, cs) ==
    IF cmd = 192 THEN (IF CardPresent(cs[SlotOf(arg1)]) THEN 244 ELSE 247)
    ELSE IF cmd \in KnownCmds THEN 247
    ELSE 244

\* cases 0xc1, 0xc4, 0xc5, 0xc6 and 0xc9 testing the card as case 0xc0 does
CmdStatus_StubsNeedCard(cmd, arg1, cs) ==
    IF cmd \in {192, 193, 196, 197, 198, 201}
    THEN (IF ~CardPresent(cs[SlotOf(arg1)]) THEN 244 ELSE 247)
    ELSE IF cmd \in KnownCmds THEN 247
    ELSE 244

\* uint8_t status = 0xf7, 0xf4 for an absent card on 0xc0 and in the default case
CmdStatus(cmd, arg1, cs) ==
    IF cmd = 192 THEN (IF ~CardPresent(cs[SlotOf(arg1)]) THEN 244 ELSE 247)
    ELSE IF cmd \in KnownCmds THEN 247
    ELSE 244

\* the timer adjusted with a zero delay
CmdDelay_None(cmd) == 0

\* case 0xe0 without its own delay
CmdDelay_Default(cmd) == 1

\* the card commands completing with no delay at all
CmdDelay_CardsAtOnce(cmd) == IF cmd = 224 THEN 30 ELSE IF cmd \in CardCmds THEN 0 ELSE 1

\* int delay = 1, 30 for 0xe0 (milliseconds)
CmdDelay(cmd) == IF cmd = 224 THEN 30 ELSE 1

\* case 0xf6 without its m_mcu_last_cmd = 0
CmdLastCmd_FetchKept(cmd) == cmd

\* m_mcu_last_cmd = cmd, and 0 again in case 0xf6
CmdLastCmd(cmd) == IF cmd = 246 THEN 0 ELSE cmd

\* cases 0xc2, 0xc3 and 0xc8 without their m_mcu_result0 = cmd
CmdResult0_CardAccessKept(cmd, regs, r0) ==
    IF cmd = 224 THEN regs[0]
    ELSE IF cmd = 225 \/ cmd \in (CardCmds \ {194, 195, 200}) THEN Widen(cmd)
    ELSE r0

\* m_mcu_result0 after the switch
CmdResult0(cmd, regs, r0) ==
    IF cmd = 224 THEN regs[0]
    ELSE IF cmd = 225 \/ cmd \in CardCmds THEN Widen(cmd)
    ELSE r0

\* case 0xe1 without its m_mcu_result1 = 0
CmdResult1_FillKept(cmd, regs, r1) ==
    IF cmd = 224 THEN regs[1]
    ELSE IF cmd = 199 THEN W32(\hF8, \h1F, 0, 0)
    ELSE r1

\* case 0xc7 without the identity constant
CmdResult1_NoId(cmd, regs, r1) ==
    IF cmd = 224 THEN regs[1]
    ELSE IF cmd = 225 THEN Zero32
    ELSE r1

\* m_mcu_result1 after the switch
CmdResult1(cmd, regs, r1) ==
    IF cmd = 224 THEN regs[1]
    ELSE IF cmd = 225 THEN Zero32
    ELSE IF cmd = 199 THEN W32(\hF8, \h1F, 0, 0)
    ELSE r1

\* the status stored over the whole of register 3
SetStatus_WholeWord(reg3, status) == W32(0, status, 0, 0)

\* m_mcu_regs[3] = (m_mcu_regs[3] & 0xff00ffff) | (status << 16)
SetStatus(reg3, status) == Or32(And32(reg3, W32(\hFF, 0, \hFF, \hFF)), W32(0, status, 0, 0))

\* case 0xf6 with the two results going to each other's register
CmdRegs_ResultsSwapped(cmd, status, regs, r0, r1) ==
    LET mail == IF cmd = 246 THEN [regs EXCEPT ![3] = r1, ![4] = r0] ELSE regs
    IN  [mail EXCEPT ![3] = SetStatus(@, status)]

\* case 0xf6 copies the latched results into the mailbox, then the status is packed
CmdRegs(cmd, status, regs, r0, r1) ==
    LET mail == IF cmd = 246 THEN [regs EXCEPT ![3] = r0, ![4] = r1] ELSE regs
    IN  [mail EXCEPT ![3] = SetStatus(@, status)]

\* the loop counter values of "for (int i = 0; i < arg3; i++)"
LoopRange(arg3) == 0 .. (arg3 - 1)

\* m_shareram indices the command reads or writes
CmdTouched(cmd, regs, bank, cs) ==
    IF cmd = 225 /\ Arg2Of(regs) = 2
    THEN {McuIndex(i, bank) : i \in 0 .. 127}
    ELSE IF cmd \in {194, 195} /\ CardPresent(cs[SlotOf(Arg1Of(regs))])
    THEN {McuIndex(i, bank) : i \in LoopRange(Arg3Of(regs))}
    ELSE {}

\* m_shareram after the switch; stores whose index is past the array are not in it
CmdShareram(cmd, regs, bank, ram, cs) ==
    LET base == McuBank(bank) * 128
        card == cs[SlotOf(Arg1Of(regs))]
        touched == CmdTouched(cmd, regs, bank, cs)
    IN  IF cmd = 225 /\ Arg2Of(regs) = 2
        THEN [p \in ShareIndices |-> IF p \in touched THEN Arg3Of(regs) ELSE ram[p]]
        ELSE IF cmd = 194 /\ CardPresent(card)
        THEN [p \in ShareIndices |->
                 IF p \in touched THEN CardRead(card, Arg2Of(regs) + (p - base)) ELSE ram[p]]
        ELSE ram

\* the byte 0xc3 reads at index p: past the end of m_shareram it is whatever
\* lies behind the array (stray)
ShareByte(ram, p, stray) == IF p \in ShareIndices THEN ram[p] ELSE stray

\* case 0xc8 writing the byte one offset further
CmdCards_ByteAtNext(cmd, regs, bank, ram, cs, stray) ==
    LET slot == SlotOf(Arg1Of(regs))
        card == cs[slot]
        arg2 == Arg2Of(regs)
        arg3 == Arg3Of(regs)
        written == {arg2 + i : i \in LoopRange(arg3)}
    IN  IF cmd = 195 /\ CardPresent(card)
        THEN [cs EXCEPT ![slot].data =
                 [o \in (DOMAIN card.data) \cup written |->
                     IF o \in written
                     THEN ShareByte(ram, McuIndex(o - arg2, bank), stray)
                     ELSE card.data[o]]]
        ELSE IF cmd = 200 /\ CardPresent(card)
        THEN [cs EXCEPT ![slot] = CardWrite(card, arg2 + 1, arg3)]
        ELSE cs

\* m_memcard_device[] after the switch
CmdCards(cmd, regs, bank, ram, cs, stray) ==
    LET slot == SlotOf(Arg1Of(regs))
        card == cs[slot]
        arg2 == Arg2Of(regs)
        arg3 == Arg3Of(regs)
        written == {arg2 + i : i \in LoopRange(arg3)}
    IN  IF cmd = 195 /\ CardPresent(card)
        THEN [cs EXCEPT ![slot].data =
                 [o \in (DOMAIN card.data) \cup written |->
                     IF o \in written
                     THEN ShareByte(ram, McuIndex(o - arg2, bank), stray)
                     ELSE card.data[o]]]
        ELSE IF cmd = 200 /\ CardPresent(card)
        THEN [cs EXCEPT ![slot] = CardWrite(card, arg2, arg3)]
        ELSE cs

\* bytes 0xc2 stores at indices past the end of m_shareram
CmdStrayStores(cmd, regs, bank, cs) ==
    LET card == cs[SlotOf(Arg1Of(regs))]
    IN  IF cmd = 194 /\ CardPresent(card)
        THEN {CardRead(card, Arg2Of(regs) + i) :
                 i \in {j \in LoopRange(Arg3Of(regs)) : McuIndex(j, bank) \notin ShareIndices}}
        ELSE {}

\* A store past the end of m_shareram is undefined: it lands in whatever the
\* build placed behind the array.  Outcomes modelled: nothing this driver reads,
\* or the low byte of m_share_bank, the member declared next.
StrayOutcomes(bank, stores) ==
    {bank} \cup {(bank \div 256) * 256 + b : b \in stores}

\* bytes that a load past the end of m_shareram may return
StrayBytes == {0, 165}

\* whether 0xc3 loads past the end of m_shareram
CmdStrayLoads(cmd, regs, bank, cs) ==
    /\ cmd = 195
    /\ CardPresent(cs[SlotOf(Arg1Of(regs))])
    /\ \E i \in LoopRange(Arg3Of(regs)) : McuIndex(i, bank) \notin ShareIndices

\* logerror calls of the switch
CmdLogs(cmd) == IF cmd \in KnownCmds THEN 0 ELSE 1

-----------------------------------------------------------------------------
(* mcu_command(space, false): the acknowledge *)

\* microseconds of the acknowledge completion, attotime::from_usec(100)
AckDelay == 100

\* the acknowledge leaving the "accepted" status
AckRegs_Accepted(regs) == [regs EXCEPT ![3] = Or32(And32(@, W32(\hFF, 0, \hFF, \hFF)), W32(0, \hF7, 0, 0))]

\* m_mcu_regs[3] = (m_mcu_regs[3] & 0xff00ffff) | 0x00F20000
AckRegs(regs) == [regs EXCEPT ![3] = Or32(And32(@, W32(\hFF, 0, \hFF, \hFF)), W32(0, \hF2, 0, 0))]

\* the acknowledge without its test of m_mcu_last_cmd
AckPending_Always(last) == TRUE

\* if (m_mcu_last_cmd)
AckPending(last) == last # 0

-----------------------------------------------------------------------------
(* m_mcu_timer: a one-shot timer; adjust() replaces whatever was pending *)

FromMsec(n) == n * 1000
FromUsec(n) == n

NotArmed == -1

\* an observer counting one more event
Counted(n) == IF n < MaxCount THEN n + 1 ELSE n

\* m_mcu_timer->adjust(duration)
TimerAdjust(duration, by, cmd) ==
    /\ mcu_timer' = duration
    /\ since_arm' = 0
    /\ armer' = [by |-> by, cmd |-> cmd, delay |-> duration]
    /\ arms' = Counted(arms)

-----------------------------------------------------------------------------
(* Inputs of the exploration *)

FullMask == W32(255, 255, 255, 255)

\* command words written to register 0: arg3 << 24 | arg2 << 16 | arg1 << 8 | cmd
CmdWords ==
    { W32(0, 0, 0, \hF6),
      W32(\h12, \h34, \h56, \hE0),
      W32(\h5A, 2, 0, \hE1),          \* mode 2, data 5a
      W32(\h5A, 1, 0, \hE1),          \* mode 1
      W32(0, 0, 0, \hC0),             \* slot 0
      W32(0, 0, 5, \hC0),             \* arg1 5: slot 1
      W32(0, 0, 0, \hC1),
      W32(2, 1, 5, \hC2),             \* slot 1, offset 1, length 2
      W32(129, 1, 5, \hC2),           \* length 129
      W32(2, 1, 0, \hC2),             \* slot 0
      W32(2, 1, 5, \hC3),             \* slot 1, offset 1, length 2
      W32(129, 1, 5, \hC3),           \* length 129
      W32(\h33, \h22, \h11, \hC7),
      W32(\h77, 1, 5, \hC8),          \* slot 1, offset 1, data 77
      W32(0, 0, 0, \hC4), W32(0, 0, 0, \hC5), W32(0, 0, 0, \hC6), W32(0, 0, 0, \hC9),
      W32(\hAA, \hBB, \hCC, \hFF),
      W32(0, 0, 1, 0) }

AuxWords == {W32(\hCA, \hFE, 0, 1)}

\* register index * 0x8000: the word offsets of the eight-register window
RegOffset(r) == r * 32768

\* <<offset, data, mem_mask>> of the mcu_w calls explored
McuWrites ==
    {<<RegOffset(0), w, FullMask>> : w \in CmdWords}
    \cup {<<RegOffset(1), w, FullMask>> : w \in AuxWords}
    \cup {<<RegOffset(2), Widen(1), FullMask>>,
          <<RegOffset(2) + 5, W32(0, 1, 0, 0), W32(0, 0, 255, 255)>>}
    \cup {<<RegOffset(5), Widen(d), FullMask>> : d \in {0, 1}}
    \cup {<<RegOffset(3), W32(\h11, \h22, \h33, \h44), FullMask>>}

McuReads == {RegOffset(3)}

ShareOffsets == {0, 127}
ShareData == {60}
ShareReads == {0}
BankWrites == {<<1, 65535>>, <<2, 255>>}

\* remaining times at which the main processor gets to run before the timer fires
TimerMarks == {0, 100}

-----------------------------------------------------------------------------
(* DRIVER_INIT: the transforms of the ROM regions.  A region is a function    *)
(* from word indices to 16-bit words; the model keeps the words at a few      *)
(* indices of each region.                                                    *)

\* the sets, by their DRIVER_INIT: orleg2 and kov2nl are keyed at run time, the
\* others are decrypted by DRIVER_INIT with a key built into the driver
Titles == {"orleg2", "kov2nl", "ddpdojh", "kov3", "kof98umh"}
RuntimeKeyed == {"orleg2", "kov2nl"}

\* the DRIVER_INITs that run decrypt_kov3_module before DRIVER_INIT(kov3)
Kov3Inits == {"kov3_104", "kov3_102", "kov3_100"}

\* ddpdoj_key, kov3_key, kof98umh_key: the 256-byte tables built into the driver
\* for the sets decrypted at init
StaticKey(t) ==
    [i \in 0 .. 255 |->
        (CASE t = "ddpdojh" -> 29 [] t \in {"kov3"} \cup Kov3Inits -> 113 [] OTHER -> 201)]

\* the key word igs036_decryptor derives for ROM word i from the 256-byte table
TableKey(table, i) == table[i % 256] + 256 * table[(i + 1) % 256]

\* igs036_decryptor(table).decrypter_rom(region): a keyed transform of every word,
\* in place; its internals are outside this driver
DecrypterRom(table, buf) ==
    [i \in DOMAIN buf |-> BitXor(BitXor(buf[i], TableKey(table, i), 16), 42405, 16)]

\* bit n of a 16-bit word
Bit16(w, n) == (w \div Pow2(n)) % 2

\* BITSWAP16(val, B15, ..., B0): bit 15 - k of the result is bit order[k + 1] of val
RECURSIVE SwapBits(_, _, _)
SwapBits(w, order, k) ==
    IF k = 16 THEN 0
    ELSE Bit16(w, order[16 - k]) * Pow2(k) + SwapBits(w, order, k + 1)

BitSwap16(w, order) == SwapBits(w, order, 0)

\* the bit order of both positional decoders: 8,9,10,11,12,13,14,15,0,1,2,3,4,5,6,7
DecodeOrder == <<8, 9, 10, 11, 12, 13, 14, 15, 0, 1, 2, 3, 4, 5, 6, 7>>

\* the bit order of sprite_colour_decode
ColourOrder == <<15, 14, 13, 12, 11, 5, 4, 3, 7, 6, 10, 9, 8, 2, 1, 0>>

\* the constants iga_u12_decode and iga_u16_decode xor in for bits 0 .. 10 of i >> 1
U12Table == <<\h9004, \h0028, \h0182, \h0010, \h2040, \h0801, 0, 0, \h4000, \h0600, 0>>
U16Table == <<\h0010, \h2004, \h0801, \h0300, \h0080, \h0020, \h4008, \h1002, \h0400, \h0040,
              \h8000>>

\* uint16_t x = ixor; if ((i >> 1) & (1 << (k - 1))) x ^= table[k], for k from 1 to 11
RECURSIVE PosMask(_, _, _, _)
PosMask(table, i, x, k) ==
    IF k > 11 THEN x
    ELSE PosMask(table, i,
                 IF ((i \div 2) \div Pow2(k - 1)) % 2 = 1 THEN BitXor(x, table[k], 16) ELSE x,
                 k + 1)

\* a decoder word that swaps the bits before it xors the mask in
DecodeWord_SwapFirst(w, table, i, ixor) ==
    BitXor(BitSwap16(w, DecodeOrder), PosMask(table, i, ixor % Word16, 1), 16)

\* one word of a positional decoder: rom[i] ^= x; rom[i] = BITSWAP16(rom[i], ...)
DecodeWord(w, table, i, ixor) ==
    BitSwap16(BitXor(w, PosMask(table, i, ixor % Word16, 1), 16), DecodeOrder)

\* iga_u12_decode(rom, len, ixor): for (i = 0; i < len / 2; i += 2)
IgaU12Decode(buf, len, ixor) ==
    [i \in DOMAIN buf |->
        IF i < len \div 2 /\ i % 2 = 0 THEN DecodeWord(buf[i], U12Table, i, ixor) ELSE buf[i]]

\* iga_u16_decode starting at word 0 like iga_u12_decode
IgaU16Decode_FromZero(buf, len, ixor) ==
    [i \in DOMAIN buf |->
        IF i < len \div 2 /\ i % 2 = 0 THEN DecodeWord(buf[i], U16Table, i, ixor) ELSE buf[i]]

\* iga_u16_decode(rom, len, ixor): for (i = 1; i < len / 2; i += 2)
IgaU16Decode(buf, len, ixor) ==
    [i \in DOMAIN buf |->
        IF i < len \div 2 /\ i % 2 = 1 THEN DecodeWord(buf[i], U16Table, i, ixor) ELSE buf[i]]

\* sprite_colour_decode(rom, len): for (i = 0; i < len / 2; i++)
SpriteColourDecode(buf, len) ==
    [i \in DOMAIN buf |-> IF i < len \div 2 THEN BitSwap16(buf[i], ColourOrder) ELSE buf[i]]

\* bytes of memregion("user1"): ROM_REGION( 0x1000000, "user1", 0 )
User1Bytes == 16777216

\* the module transform working in place, without its buffer
DecryptKov3Module_InPlace(src, size, addrxor, dataxor, stray) ==
    [i \in DOMAIN src |->
        IF i < size \div 2 /\ i < BitXor(i, addrxor, 32) /\ BitXor(i, addrxor, 32) \in DOMAIN src
        THEN BitXor(src[BitXor(i, addrxor, 32)], dataxor, 16)
        ELSE src[i]]

\* decrypt_kov3_module(addrxor, dataxor): buffer[i] = src[i ^ addrxor] ^ dataxor for every
\* i below size / 2, then memcpy(src, buffer, size); a read past the region returns
\* whatever lies behind it (stray)
DecryptKov3Module(src, size, addrxor, dataxor, stray) ==
    [i \in DOMAIN src |->
        IF i < size \div 2
        THEN BitXor(IF BitXor(i, addrxor, 32) < size \div 2 /\ BitXor(i, addrxor, 32) \in DOMAIN src
                    THEN src[BitXor(i, addrxor, 32)] ELSE stray,
                    dataxor, 16)
        ELSE src[i]]

\* words a read past the end of a region may return
StrayWords == {0, \hA5A5}

\* the arguments of decrypt_kov3_module in DRIVER_INIT(kov3_104), (kov3_102), (kov3_100)
ModuleAddrXor(t) ==
    CASE t = "kov3_104" -> \h18EC71 [] t = "kov3_102" -> \h021D37 [] t = "kov3_100" -> \h3E8AA8
      [] OTHER -> 0

ModuleDataXor(t) ==
    CASE t = "kov3_104" -> \hB89D [] t = "kov3_102" -> \h81D0 [] t = "kov3_100" -> \hC530
      [] OTHER -> 0

\* the length and key arguments of iga_u12_decode and iga_u16_decode, and the length
\* argument of sprite_colour_decode, in each DRIVER_INIT
MaskLen(t) ==
    CASE t \in RuntimeKeyed -> \h2000000 [] t = "ddpdojh" -> \h1000000
      [] t = "kof98umh" -> \h8000000 [] OTHER -> \h4000000

ColourLen(t) ==
    CASE t \in RuntimeKeyed -> \h4000000 [] t = "ddpdojh" -> \h2000000
      [] t = "kof98umh" -> \h20000000 [] OTHER -> \h8000000

U12Key(t) ==
    CASE t \in RuntimeKeyed -> 0 [] t = "ddpdojh" -> \h1E96 [] t = "kof98umh" -> \h21DF
      [] OTHER -> \h956D

U16Key(t) ==
    CASE t \in RuntimeKeyed -> 0 [] t = "ddpdojh" -> \h869C [] t = "kof98umh" -> \h8692
      [] OTHER -> \h3D17

\* one transform call of a DRIVER_INIT: the function, the region, its arguments, and for
\* decrypter_rom the set whose key table it is given
InitCall(xform, region, len, key, data, table) ==
    [xform |-> xform, region |-> region, len |-> len, key |-> key, data |-> data, table |-> table]

\* a DRIVER_INIT that runs the positional decoders over the colour region as well
InitProgram_DecodesColour(t) ==
    (IF t \in Kov3Inits
     THEN <<InitCall("decrypt_kov3_module", "user1", User1Bytes, ModuleAddrXor(t),
                     ModuleDataXor(t), "")>>
     ELSE <<>>)
    \o <<InitCall("iga_u12_decode", "sprites_mask", MaskLen(t), U12Key(t), 0, ""),
          InitCall("iga_u16_decode", "sprites_mask", MaskLen(t), U16Key(t), 0, ""),
          InitCall("iga_u12_decode", "sprites_colour", ColourLen(t), U12Key(t), 0, ""),
          InitCall("iga_u16_decode", "sprites_colour", ColourLen(t), U16Key(t), 0, ""),
          InitCall("sprite_colour_decode", "sprites_colour", ColourLen(t), 0, 0, "")>>
    \o (IF t \in RuntimeKeyed THEN <<>>
        ELSE <<InitCall("decrypter_rom", "user1", User1Bytes, 0, 0, t)>>)

\* the transform calls of DRIVER_INIT(t), in program order
InitProgram(t) ==
    (IF t \in Kov3Inits
     THEN <<InitCall("decrypt_kov3_module", "user1", User1Bytes, ModuleAddrXor(t),
                     ModuleDataXor(t), "")>>
     ELSE <<>>)
    \o <<InitCall("iga_u12_decode", "sprites_mask", MaskLen(t), U12Key(t), 0, ""),
          InitCall("iga_u16_decode", "sprites_mask", MaskLen(t), U16Key(t), 0, ""),
          InitCall("sprite_colour_decode", "sprites_colour", ColourLen(t), 0, 0, "")>>
    \o (IF t \in RuntimeKeyed THEN <<>>
        ELSE <<InitCall("decrypter_rom", "user1", User1Bytes, 0, 0, t)>>)

\* the regions after one transform call
ApplyCall(c, regs, stray) ==
    CASE c.xform = "decrypt_kov3_module" ->
             [regs EXCEPT ![c.region] = DecryptKov3Module(@, c.len, c.key, c.data, stray)]
      [] c.xform = "iga_u12_decode" -> [regs EXCEPT ![c.region] = IgaU12Decode(@, c.len, c.key)]
      [] c.xform = "iga_u16_decode" -> [regs EXCEPT ![c.region] = IgaU16Decode(@, c.len, c.key)]
      [] c.xform = "sprite_colour_decode" ->
             [regs EXCEPT ![c.region] = SpriteColourDecode(@, c.len)]
      [] c.xform = "decrypter_rom" -> [regs EXCEPT ![c.region] = DecrypterRom(StaticKey(c.table), @)]

\* the regions after the calls, one after the other
RECURSIVE RunCalls(_, _, _)
RunCalls(calls, regs, stray) ==
    IF calls = <<>> THEN regs
    ELSE RunCalls(Tail(calls), ApplyCall(Head(calls), regs, stray), stray)

\* word indices kept of the sprite regions: the first words, words whose index has bits
\* 0 .. 10 of i >> 1 set, and the last words of the region
MaskSample(t) == {0, 1, 2, 3, 4094, 4095, (MaskLen(t) \div 2) - 2, (MaskLen(t) \div 2) - 1}
ColourSample(t) == {0, 1, (ColourLen(t) \div 2) - 1}

\* word indices kept of the program ROM: the first two words and the last one, and the
\* words decrypt_kov3_module reads for them
ProgSeeds == {0, 1, (User1Bytes \div 2) - 1}
ProgSample(t) == ProgSeeds \cup {BitXor(i, ModuleAddrXor(t), 32) : i \in ProgSeeds}

\* region contents as loaded: every kept word different from the others, or all alike
TaggedImage(sample) == [i \in sample |-> (4660 + 7 * i) % Word16]
FlatImage(sample, w) == [i \in sample |-> w]

\* the sprite regions as DRIVER_INIT(t) leaves them, from the tagged images
SpritesAfterInit(t) ==
    RunCalls(SelectSeq(InitProgram(t), LAMBDA c : c.region # "user1"),
             [user1 |-> <<>>, sprites_mask |-> TaggedImage(MaskSample(t)),
              sprites_colour |-> TaggedImage(ColourSample(t))], 0)

\* the sprite regions and the record of DRIVER_INIT once it has run
InitRegions ==
    /\ sprites_mask = SpritesAfterInit(title).sprites_mask
    /\ sprites_colour = SpritesAfterInit(title).sprites_colour
    /\ init_log = InitProgram(title)

-----------------------------------------------------------------------------
(* Initial state: members zeroed at construction, machine_reset() run, cards *)
(* inserted or not by the operator.                                          *)

CardConfigs ==
    { [s \in 0 .. 3 |-> NoCard],
      [s \in 0 .. 3 |-> IF s = 1 THEN CardImage ELSE NoCard] }

InitMcu ==
    /\ mcu_regs = [r \in 0 .. 7 |-> Zero32]
    /\ mcu_result0 = Zero32
    /\ mcu_result1 = Zero32
    /\ mcu_last_cmd = 0
    /\ shareram = [p \in ShareIndices |-> 0]
    /\ share_bank = 0
    /\ mcu_timer = NotArmed
    /\ since_arm = 0
    /\ armer = [by |-> "none", cmd |-> 0, delay |-> 0]
    /\ arms = 0

InitObservers ==
    /\ last_op = [op |-> "init", a |-> 0, d |-> Zero32, m |-> Zero32, call |-> "none"]
    /\ irq_raised = 0
    /\ log_lines = 0
    /\ mcu_touched = {}
    /\ read_value = Zero32
    /\ ack_due = FALSE
    /\ triggered = FALSE
    /\ steps = 0
    /\ fires = 0
    /\ spinning = FALSE

InitCrypt ==
    /\ encryption_table = [i \in 0 .. 255 |-> 0]
    /\ has_decrypted = 0
    /\ rom = [i \in 0 .. (RomWords - 1) |-> 4660 + i]

\* m_mainram word indices the speed-up handlers read: 0x20114 / 4, 0x20118 / 4,
\* 0x20470 / 4, 0x20474 / 4
WatchedWords == {32837, 32838, 33052, 33053}

\* no save state has been written yet
NoSnapshot ==
    [valid |-> FALSE,
     encryption_table |-> [i \in 0 .. 255 |-> 0], has_decrypted |-> 0,
     spritekey |-> Zero32, realspritekey |-> Zero32,
     mcu_regs |-> [r \in 0 .. 7 |-> Zero32], mcu_result0 |-> Zero32,
     mcu_result1 |-> Zero32, mcu_last_cmd |-> 0,
     shareram |-> [p \in ShareIndices |-> 0], share_bank |-> 0,
     rom_then |-> <<>>]

\* machine_reset() on the sprite keys, main RAM as allocated, no save state, the
\* main processor running
InitMachine ==
    /\ spritekey = Zero32
    /\ realspritekey = Zero32
    /\ mainram = [w \in WatchedWords |-> Zero32]
    /\ snapshot = NoSnapshot

\* DRIVER_INIT(orleg2): common_encryption_init() leaves both flags 0 and makes no
\* pass over the program ROM
InitOrleg2 ==
    /\ title = "orleg2"
    /\ sprite_predecrypted = 0
    /\ passes = 0
    /\ InitRegions

Init ==
    /\ InitMcu
    /\ cards \in CardConfigs
    /\ InitCrypt
    /\ InitObservers
    /\ InitMachine
    /\ InitOrleg2

-----------------------------------------------------------------------------
(* Handlers *)

\* what a handler that raises no interrupt, logs nothing and is no mcu_command leaves
Quiet ==
    /\ irq_raised' = 0
    /\ log_lines' = 0
    /\ mcu_touched' = {}

\* int reg = (offset >> 15) & 7
McuReg(offset) == (offset \div 32768) % 8

\* mcu_w calling mcu_command without testing the register it stored
McuCall_UntestedStrobe(reg, regs) ==
    IF reg = 2 THEN "command" ELSE IF reg = 5 THEN "ack" ELSE "none"

\* which mcu_command call mcu_w makes after storing
McuCall(reg, regs) ==
    IF reg = 2 /\ regs[2] # Zero32 THEN "command"
    ELSE IF reg = 5 /\ regs[5] # Zero32 THEN "ack"
    ELSE "none"

\* mcu_command(space, true), on the registers as mcu_w stored them
McuCommandIssue(regs) ==
    LET cmd == CmdOf(regs)
        status == CmdStatus(cmd, Arg1Of(regs), cards)
    IN  /\ mcu_regs' = CmdRegs(cmd, status, regs, mcu_result0, mcu_result1)
        /\ mcu_last_cmd' = CmdLastCmd(cmd)
        /\ mcu_result0' = CmdResult0(cmd, regs, mcu_result0)
        /\ mcu_result1' = CmdResult1(cmd, regs, mcu_result1)
        /\ shareram' = CmdShareram(cmd, regs, share_bank, shareram, cards)
        /\ \E stray \in (IF CmdStrayLoads(cmd, regs, share_bank, cards) THEN StrayBytes ELSE {0}) :
               cards' = CmdCards(cmd, regs, share_bank, shareram, cards, stray)
        /\ share_bank' \in StrayOutcomes(share_bank, CmdStrayStores(cmd, regs, share_bank, cards))
        /\ TimerAdjust(FromMsec(CmdDelay(cmd)), "command", cmd)
        /\ mcu_touched' = CmdTouched(cmd, regs, share_bank, cards)
        /\ log_lines' = CmdLogs(cmd)
        /\ irq_raised' = 0
        /\ ack_due' = TRUE

\* the acknowledge branch dropping the latched results once they are acknowledged
McuCommandAck_DropsResults(regs) ==
    /\ IF AckPending(mcu_last_cmd)
       THEN /\ mcu_regs' = AckRegs(regs)
            /\ TimerAdjust(FromUsec(AckDelay), "ack", mcu_last_cmd)
            /\ mcu_last_cmd' = 0
       ELSE /\ mcu_regs' = regs
            /\ UNCHANGED <<mcu_last_cmd, timerVars>>
    /\ mcu_result0' = Zero32
    /\ mcu_result1' = Zero32
    /\ UNCHANGED <<shareram, share_bank, cards>>
    /\ ack_due' = FALSE
    /\ Quiet

\* mcu_command(space, false)
McuCommandAck(regs) ==
    /\ IF AckPending(mcu_last_cmd)
       THEN /\ mcu_regs' = AckRegs(regs)
            /\ TimerAdjust(FromUsec(AckDelay), "ack", mcu_last_cmd)
            /\ mcu_last_cmd' = 0
       ELSE /\ mcu_regs' = regs
            /\ UNCHANGED <<mcu_last_cmd, timerVars>>
    /\ UNCHANGED <<mcu_result0, mcu_result1, shareram, share_bank, cards>>
    /\ ack_due' = FALSE
    /\ Quiet

\* WRITE32_MEMBER(pgm2_state::mcu_w)
McuWrite(offset, data, mem_mask) ==
    LET reg == McuReg(offset)
        regs == [mcu_regs EXCEPT ![reg] = CombineData32(@, data, mem_mask)]
        call == McuCall(reg, regs)
    IN  /\ last_op' = [op |-> "mcu_w", a |-> offset, d |-> data, m |-> mem_mask, call |-> call]
        /\ CASE call = "command" -> McuCommandIssue(regs)
             [] call = "ack" -> McuCommandAck(regs)
             [] OTHER -> /\ mcu_regs' = regs
                         /\ UNCHANGED <<mcu_result0, mcu_result1, mcu_last_cmd, shareram,
                                        share_bank, cards, timerVars, ack_due>>
                         /\ Quiet
        /\ read_value' = Zero32
        /\ UNCHANGED <<cryptVars, triggered, spriteVars, machineVars, spinning, passes, fires>>

\* one more main-processor access, within the explored number
Step ==
    /\ steps < MaxSteps
    /\ steps' = steps + 1

\* mcu_w as one of the explored accesses
McuW(offset, data, mem_mask) == Step /\ McuWrite(offset, data, mem_mask)

\* return m_mcu_regs[(offset >> 15) & 7]
mcu_r(regs, offset) == regs[McuReg(offset)]

\* return m_shareram[offset + (m_share_bank & 1) * 128]
shareram_r(ram, bank, offset) == ram[CpuIndex(offset, bank)]

\* READ32_MEMBER(pgm2_state::mcu_r)
McuRead(offset) ==
    /\ read_value' = mcu_r(mcu_regs, offset)
    /\ last_op' = [op |-> "mcu_r", a |-> offset, d |-> Zero32, m |-> Zero32, call |-> "none"]
    /\ Quiet
    /\ UNCHANGED <<mcuVars, shareram, share_bank, cards, timerVars, cryptVars, ack_due,
                   triggered>>
    /\ UNCHANGED <<spriteVars, machineVars, spinning, passes, fires>>

McuR(offset) == Step /\ McuRead(offset)

\* WRITE16_MEMBER(pgm2_state::share_bank_w)
ShareBankWrite(data, mem_mask) ==
    /\ share_bank' = CombineData16(share_bank, data, mem_mask)
    /\ last_op' = [op |-> "share_bank_w", a |-> 0, d |-> Widen16(data), m |-> Widen16(mem_mask), call |-> "none"]
    /\ Quiet
    /\ UNCHANGED <<mcuVars, shareram, cards, timerVars, cryptVars, ack_due, triggered>>
    /\ UNCHANGED <<spriteVars, machineVars, spinning, passes, fires>>
    /\ read_value' = Zero32

ShareBankW(data, mem_mask) == Step /\ ShareBankWrite(data, mem_mask)

\* READ8_MEMBER(pgm2_state::shareram_r)
ShareramRead(offset) ==
    /\ read_value' = Widen(shareram_r(shareram, share_bank, offset))
    /\ last_op' = [op |-> "shareram_r", a |-> offset, d |-> Zero32, m |-> Zero32, call |-> "none"]
    /\ Quiet
    /\ UNCHANGED <<mcuVars, shareram, share_bank, cards, timerVars, cryptVars, ack_due,
                   triggered>>
    /\ UNCHANGED <<spriteVars, machineVars, spinning, passes, fires>>

ShareramR(offset) == Step /\ ShareramRead(offset)

\* WRITE8_MEMBER(pgm2_state::shareram_w)
ShareramWrite(offset, data) ==
    /\ shareram' = [shareram EXCEPT ![CpuIndex(offset, share_bank)] = data]
    /\ last_op' = [op |-> "shareram_w", a |-> offset, d |-> Widen(data), m |-> Zero32, call |-> "none"]
    /\ Quiet
    /\ UNCHANGED <<mcuVars, share_bank, cards, timerVars, cryptVars, ack_due, triggered>>
    /\ UNCHANGED <<spriteVars, machineVars, spinning, passes, fires>>
    /\ read_value' = Zero32

ShareramW(offset, data) == Step /\ ShareramWrite(offset, data)

\* time passes without the timer expiring: the remaining time drops to a mark
TimePasses(mark) ==
    /\ mcu_timer # NotArmed
    /\ mark < mcu_timer
    /\ since_arm' = since_arm + (mcu_timer - mark)
    /\ mcu_timer' = mark
    /\ last_op' = [op |-> "time", a |-> 0, d |-> Zero32, m |-> Zero32, call |-> "none"]
    /\ Quiet
    /\ read_value' = Zero32
    /\ UNCHANGED <<mcuVars, shareram, share_bank, cards, armer, cryptVars, ack_due, triggered,
                   steps>>
    /\ UNCHANGED <<spriteVars, machineVars, spinning, passes, arms, fires>>

\* the callback running while time remains on the timer
IgsInterrupt2_Early ==
    /\ mcu_timer > 0
    /\ mcu_timer' = NotArmed
    /\ irq_raised' = 70
    /\ log_lines' = 0
    /\ mcu_touched' = {}
    /\ last_op' = [op |-> "igs_interrupt2", a |-> 0, d |-> Zero32, m |-> Zero32, call |-> "none"]
    /\ UNCHANGED <<mcuVars, shareram, share_bank, cards, since_arm, armer, cryptVars, ack_due, triggered, steps>>
    /\ fires' = Counted(fires)
    /\ spinning' = FALSE
    /\ UNCHANGED <<spriteVars, machineVars, passes, arms>>
    /\ read_value' = Zero32

\* the callback of a timer that stays due after it ran
IgsInterrupt2_StillDue ==
    /\ mcu_timer = 0
    /\ mcu_timer' = mcu_timer
    /\ irq_raised' = 70
    /\ log_lines' = 0
    /\ mcu_touched' = {}
    /\ last_op' = [op |-> "igs_interrupt2", a |-> 0, d |-> Zero32, m |-> Zero32, call |-> "none"]
    /\ UNCHANGED <<mcuVars, shareram, share_bank, cards, since_arm, armer, cryptVars, ack_due, triggered, steps>>
    /\ fires' = Counted(fires)
    /\ spinning' = FALSE
    /\ UNCHANGED <<spriteVars, machineVars, passes, arms>>
    /\ read_value' = Zero32

\* TIMER_DEVICE_CALLBACK_MEMBER(pgm2_state::igs_interrupt2): m_arm_aic->set_irq(0x46)
IgsInterrupt2 ==
    /\ mcu_timer = 0
    /\ mcu_timer' = NotArmed
    /\ irq_raised' = 70
    /\ log_lines' = 0
    /\ mcu_touched' = {}
    /\ last_op' = [op |-> "igs_interrupt2", a |-> 0, d |-> Zero32, m |-> Zero32, call |-> "none"]
    /\ UNCHANGED <<mcuVars, shareram, share_bank, cards, since_arm, armer, cryptVars, ack_due, triggered, steps>>
    /\ fires' = Counted(fires)
    /\ spinning' = FALSE
    /\ UNCHANGED <<spriteVars, machineVars, passes, arms>>
    /\ read_value' = Zero32

\* the frame interrupt taking the pending completion with it
IgsInterrupt_CancelsCompletion ==
    /\ irq_raised' = 71
    /\ log_lines' = 0
    /\ mcu_touched' = {}
    /\ last_op' = [op |-> "igs_interrupt", a |-> 0, d |-> Zero32, m |-> Zero32, call |-> "none"]
    /\ mcu_timer' = NotArmed
    /\ UNCHANGED <<mcuVars, shareram, share_bank, cards, since_arm, armer, arms, cryptVars, ack_due, triggered, steps>>
    /\ spinning' = FALSE
    /\ UNCHANGED <<spriteVars, machineVars, passes, fires>>
    /\ read_value' = Zero32

\* INTERRUPT_GEN_MEMBER(pgm2_state::igs_interrupt): m_arm_aic->set_irq(0x47)
IgsInterrupt ==
    /\ irq_raised' = 71
    /\ log_lines' = 0
    /\ mcu_touched' = {}
    /\ last_op' = [op |-> "igs_interrupt", a |-> 0, d |-> Zero32, m |-> Zero32, call |-> "none"]
    /\ UNCHANGED <<mcuVars, shareram, share_bank, cards, timerVars, cryptVars, ack_due, triggered, steps>>
    /\ spinning' = FALSE
    /\ UNCHANGED <<spriteVars, machineVars, passes, fires>>
    /\ read_value' = Zero32

Next ==
    \/ \E w \in McuWrites : McuW(w[1], w[2], w[3])
    \/ \E o \in McuReads : McuR(o)
    \/ \E b \in BankWrites : ShareBankW(b[1], b[2])
    \/ \E o \in ShareReads : ShareramR(o)
    \/ \E o \in ShareOffsets, d \in ShareData : ShareramW(o, d)
    \/ \E mark \in TimerMarks : TimePasses(mark)
    \/ IgsInterrupt2
    \/ IgsInterrupt

Spec == Init /\ [][Next]_vars

-----------------------------------------------------------------------------
(* Program-ROM decryption: the encryption table and its trigger *)

\* the trigger without its test of m_has_decrypted
NeedsDecrypt_Always(flag) == TRUE

\* if (m_has_decrypted == 0)
NeedsDecrypt(flag) == flag = 0

\* WRITE8_MEMBER(pgm2_state::encryption_w)
EncryptionW(offset, data) ==
    /\ encryption_table' = [encryption_table EXCEPT ![offset] = data]
    /\ last_op' = [op |-> "encryption_w", a |-> offset, d |-> Widen(data), m |-> Zero32, call |-> "none"]
    /\ Quiet
    /\ read_value' = Zero32
    /\ UNCHANGED <<mcuVars, shareram, share_bank, cards, timerVars, has_decrypted, rom,
                   ack_due, triggered, steps>>
    /\ UNCHANGED <<spriteVars, machineVars, spinning, passes, fires>>

\* WRITE32_MEMBER(pgm2_state::encryption_do_w)
EncryptionDoW(data) ==
    /\ IF NeedsDecrypt(has_decrypted)
       THEN /\ rom' = DecrypterRom(encryption_table, rom)
            /\ has_decrypted' = 1
            /\ passes' = Counted(passes)
       ELSE UNCHANGED <<rom, has_decrypted, passes>>
    /\ triggered' = TRUE
    /\ last_op' = [op |-> "encryption_do_w", a |-> 0, d |-> data, m |-> Zero32, call |-> "none"]
    /\ Quiet
    /\ read_value' = Zero32
    /\ UNCHANGED <<mcuVars, shareram, share_bank, cards, timerVars, encryption_table,
                   ack_due, steps>>
    /\ UNCHANGED <<spriteVars, machineVars, spinning, fires>>

\* table offsets and bytes, trigger data and ROM words explored
TableOffsets == {0, 1, 255}
TableData == {0, 60}
TriggerData == {Zero32, Widen(1)}
RomValues == {4660, 65535}

\* the state DRIVER_INIT leaves: the ROM image as loaded, the flag 0 for the titles
\* keyed at run time and 1 for those decrypted at init
InitCryptTitles ==
    /\ encryption_table = [i \in 0 .. 255 |-> 0]
    /\ has_decrypted \in {0, 1}
    /\ rom \in [0 .. (RomWords - 1) -> RomValues]

\* DRIVER_INIT of a run-time keyed set on every set
InitHasDecrypted_RunTime(t) == 0

\* m_has_decrypted as DRIVER_INIT leaves it
InitHasDecrypted(t) == IF t \in RuntimeKeyed THEN 0 ELSE 1

\* m_sprite_predecrypted as DRIVER_INIT leaves it
InitPredecrypted(t) == IF t \in RuntimeKeyed THEN 0 ELSE 1

InitC ==
    /\ InitMcu
    /\ cards = [s \in 0 .. 3 |-> NoCard]
    /\ InitCryptTitles
    /\ InitObservers
    /\ InitMachine
    /\ title \in {t \in Titles : InitHasDecrypted(t) = has_decrypted}
    /\ sprite_predecrypted = InitPredecrypted(title)
    /\ passes = has_decrypted
    /\ InitRegions

NextC ==
    \/ \E o \in TableOffsets, d \in TableData : EncryptionW(o, d)
    \/ \E d \in TriggerData : EncryptionDoW(d)

SpecCrypt == InitC /\ [][NextC]_vars

-----------------------------------------------------------------------------
(* DRIVER_INIT, machine_reset() and the sprite key register *)

\* memregion("user1") as DRIVER_INIT leaves it, from the image as loaded
InitRom(t, image) == IF t \in RuntimeKeyed THEN image ELSE DecrypterRom(StaticKey(t), image)

\* decrypter_rom passes DRIVER_INIT makes
InitPasses(t) == IF t \in RuntimeKeyed THEN 0 ELSE 1

\* machine_reset() deriving the real key from the cleared raw key, as the key write does:
\* BITSWAP32(0 ^ 0x90055555, 0, 1, ..., 31)
MachineReset_DerivesRealKey ==
    /\ spritekey' = Zero32
    /\ realspritekey' = W32(\hAA, \hAA, \hA0, \h09)
    /\ mcu_last_cmd' = 0
    /\ share_bank' = 0
    /\ last_op' = [op |-> "machine_reset", a |-> 0, d |-> Zero32, m |-> Zero32, call |-> "none"]
    /\ Quiet
    /\ read_value' = Zero32
    /\ UNCHANGED <<mcu_regs, mcu_result0, mcu_result1, shareram, cards, timerVars, cryptVars,
                   ack_due, triggered, steps>>
    /\ UNCHANGED <<sprite_predecrypted, machineVars, spinning, passes, fires>>

\* void pgm2_state::machine_reset()
MachineReset ==
    /\ spritekey' = Zero32
    /\ realspritekey' = Zero32
    /\ mcu_last_cmd' = 0
    /\ share_bank' = 0
    /\ last_op' = [op |-> "machine_reset", a |-> 0, d |-> Zero32, m |-> Zero32, call |-> "none"]
    /\ Quiet
    /\ read_value' = Zero32
    /\ UNCHANGED <<mcu_regs, mcu_result0, mcu_result1, shareram, cards, timerVars, cryptVars,
                   ack_due, triggered, steps>>
    /\ UNCHANGED <<sprite_predecrypted, machineVars, spinning, passes, fires>>

Xor32(a, b) == [k \in 1 .. 4 |-> BitXor(a[k], b[k], 8)]

\* bit n of a 32-bit word: BIT(val, n)
Bit32(w, n) == (w[(n \div 8) + 1] \div Pow2(n % 8)) % 2

\* BITSWAP32(val, B31, ..., B0): bit 31 - k of the result is bit order[k + 1] of val
BitSwap32(w, order) ==
    LET bit(n) == Bit32(w, order[(31 - n) + 1])
        byte(k) == bit(8 * k) + 2 * bit(8 * k + 1) + 4 * bit(8 * k + 2) + 8 * bit(8 * k + 3)
                   + 16 * bit(8 * k + 4) + 32 * bit(8 * k + 5) + 64 * bit(8 * k + 6)
                   + 128 * bit(8 * k + 7)
    IN  <<byte(0), byte(1), byte(2), byte(3)>>

\* the bit order of sprite_encryption_w: 0, 1, 2, ..., 31
KeyBitOrder == [k \in 1 .. 32 |-> k - 1]

\* the key derived without the swap
RealSpriteKey_Unswapped(key) == Xor32(key, W32(\h90, \h05, \h55, \h55))

\* BITSWAP32(m_spritekey ^ 0x90055555, 0, 1, 2, ..., 31)
RealSpriteKey(key) == BitSwap32(Xor32(key, W32(\h90, \h05, \h55, \h55)), KeyBitOrder)

\* WRITE32_MEMBER(pgm2_state::sprite_encryption_w)
SpriteEncryptionW(data, mem_mask) ==
    LET key == CombineData32(spritekey, data, mem_mask)
    IN  /\ spritekey' = key
        /\ realspritekey' = IF sprite_predecrypted = 0 THEN RealSpriteKey(key) ELSE realspritekey
        /\ last_op' = [op |-> "sprite_encryption_w", a |-> 0, d |-> data, m |-> mem_mask,
                       call |-> "none"]
        /\ Quiet
        /\ read_value' = Zero32
        /\ UNCHANGED <<mcuVars, shareram, share_bank, cards, timerVars, cryptVars, ack_due,
                       triggered, steps>>
        /\ UNCHANGED <<sprite_predecrypted, machineVars, spinning, passes, fires>>

\* words and lane masks written to the sprite key register
KeyData == {W32(\h12, \h34, \h56, \h78), W32(\h80, 0, 0, 1)}
KeyMasks == {FullMask, W32(0, 0, 255, 255)}

\* the state after DRIVER_INIT and the first machine_reset(), for every set and
\* every ROM image
InitT ==
    /\ InitMcu
    /\ cards = [s \in 0 .. 3 |-> NoCard]
    /\ InitObservers
    /\ InitMachine
    /\ title \in Titles
    /\ InitRegions
    /\ encryption_table = [i \in 0 .. 255 |-> 0]
    /\ has_decrypted = InitHasDecrypted(title)
    /\ sprite_predecrypted = InitPredecrypted(title)
    /\ \E image \in [0 .. (RomWords - 1) -> RomValues] : rom = InitRom(title, image)
    /\ passes = InitPasses(title)

NextT ==
    \/ \E o \in TableOffsets, d \in TableData : EncryptionW(o, d)
    \/ \E d \in TriggerData : EncryptionDoW(d)
    \/ \E d \in KeyData, m \in KeyMasks : SpriteEncryptionW(d, m)
    \/ MachineReset

SpecTitles == InitT /\ [][NextT]_vars

-----------------------------------------------------------------------------
(* The completion timer over unbounded runs: the main processor keeps writing  *)
(* the mailbox for as long as it likes, emulated time always advances, and the *)
(* timer callback runs when its time has come.                                 *)

\* mailbox writes explored: the commands 0xF6, 0xE0 and the unknown 0xFF, the issue
\* strobe and the acknowledge strobe
LiveWrites ==
    {<<RegOffset(0), w, FullMask>> :
         w \in {W32(0, 0, 0, \hF6), W32(\h12, \h34, \h56, \hE0), W32(\hAA, \hBB, \hCC, \hFF)}}
    \cup {<<RegOffset(2), Widen(1), FullMask>>, <<RegOffset(5), Widen(1), FullMask>>}

\* mcu_w, any number of times
LiveMcuW(offset, data, mem_mask) == McuWrite(offset, data, mem_mask) /\ UNCHANGED steps

\* the scheduler: time advances towards the armed expiry
Clock == \E mark \in TimerMarks : TimePasses(mark)

NextL ==
    \/ \E w \in LiveWrites : LiveMcuW(w[1], w[2], w[3])
    \/ Clock
    \/ IgsInterrupt2

SpecLive ==
    /\ Init
    /\ [][NextL]_vars
    /\ WF_mcu_timer(Clock)
    /\ SF_mcu_timer(IgsInterrupt2)

-----------------------------------------------------------------------------
(* Save states: the members machine_start() registers with save_item.  The    *)
(* timer and the cards are devices that save themselves; memory regions are   *)
(* not part of a save state.                                                   *)

\* the save_item list of machine_start(), with the values of the moment; rom_then is an
\* observer of the program ROM at that moment and is not part of the save state
SaveItems ==
    [valid |-> TRUE,
     encryption_table |-> encryption_table, has_decrypted |-> has_decrypted,
     spritekey |-> spritekey, realspritekey |-> realspritekey,
     mcu_regs |-> mcu_regs, mcu_result0 |-> mcu_result0,
     mcu_result1 |-> mcu_result1, mcu_last_cmd |-> mcu_last_cmd,
     shareram |-> shareram, share_bank |-> share_bank,
     rom_then |-> rom]

\* a save state is written
StateSave ==
    /\ snapshot' = SaveItems
    /\ last_op' = [op |-> "state_save", a |-> 0, d |-> Zero32, m |-> Zero32, call |-> "none"]
    /\ Quiet
    /\ read_value' = Zero32
    /\ UNCHANGED <<mcuVars, shareram, share_bank, cards, timerVars, cryptVars, ack_due,
                   triggered, steps>>
    /\ UNCHANGED <<spriteVars, title, mainram, regionVars, spinning, passes, fires>>

\* the save state is loaded into the running machine: every registered member gets its
\* saved value, nothing else is touched
StateLoad ==
    /\ snapshot.valid
    /\ encryption_table' = snapshot.encryption_table
    /\ has_decrypted' = snapshot.has_decrypted
    /\ spritekey' = snapshot.spritekey
    /\ realspritekey' = snapshot.realspritekey
    /\ mcu_regs' = snapshot.mcu_regs
    /\ mcu_result0' = snapshot.mcu_result0
    /\ mcu_result1' = snapshot.mcu_result1
    /\ mcu_last_cmd' = snapshot.mcu_last_cmd
    /\ shareram' = snapshot.shareram
    /\ share_bank' = snapshot.share_bank
    /\ last_op' = [op |-> "state_load", a |-> 0, d |-> Zero32, m |-> Zero32, call |-> "none"]
    /\ Quiet
    /\ read_value' = Zero32
    /\ UNCHANGED <<rom, cards, timerVars, ack_due, triggered, steps>>
    /\ UNCHANGED <<sprite_predecrypted, machineVars, spinning, passes, fires>>

\* the sets and accesses explored around a save state
SaveTitles == {"orleg2", "ddpdojh"}
SaveKeyData == {W32(\h12, \h34, \h56, \h78)}

InitS ==
    /\ InitT
    /\ title \in SaveTitles

NextS ==
    \/ \E d \in TableData : EncryptionW(0, d)
    \/ EncryptionDoW(Widen(1))
    \/ \E d \in SaveKeyData : SpriteEncryptionW(d, FullMask)
    \/ StateSave
    \/ StateLoad

SpecSave == InitS /\ [][NextS]_vars

-----------------------------------------------------------------------------
(* Longer runs of one exchange: a command, its acknowledge, the result fetch *)

\* one more main-processor access of a longer run
DeepStep ==
    /\ steps < MaxDeep
    /\ steps' = steps + 1

\* mailbox writes of a result fetch: 0xE0 and 0xC7 latch results, 0xF6 fetches them
FetchWrites ==
    {<<RegOffset(0), w, FullMask>> :
         w \in {W32(\h12, \h34, \h56, \hE0), W32(0, 0, 0, \hC7), W32(0, 0, 0, \hF6)}}
    \cup {<<RegOffset(2), Widen(1), FullMask>>, <<RegOffset(5), Widen(1), FullMask>>}

FetchMcuW(offset, data, mem_mask) == DeepStep /\ McuWrite(offset, data, mem_mask)

\* a card in slot 1
InitF ==
    /\ Init
    /\ cards[1].present

NextF == \E w \in FetchWrites : FetchMcuW(w[1], w[2], w[3])

SpecFetch == InitF /\ [][NextF]_vars

-----------------------------------------------------------------------------
(* The speed-up read handlers DRIVER_INIT installs over two words of main RAM *)

\* safe_pc() values at which the handlers suspend: 0x1002faec, 0x1002f9b8 for
\* orleg2; 0x10053a94, 0x1005332c, 0x1005327c for kov2nl
Orleg2Pcs == {268630764, 268630456}
Kov2nlPcs == {268778132, 268776236, 268776060}

\* orleg2_speedup_r suspending on the first watched word alone
Orleg2Spins_FirstWordOnly(pc, ram) == pc \in Orleg2Pcs /\ ram[32837] = Zero32

\* orleg2_speedup_r: the tests that lead to spin_until_interrupt()
Orleg2Spins(pc, ram) == pc \in Orleg2Pcs /\ ram[32837] = Zero32 /\ ram[32838] = Zero32

\* kov2nl_speedup_r: the tests that lead to spin_until_interrupt()
Kov2nlSpins(pc, ram) == pc \in Kov2nlPcs /\ ram[33052] = Zero32 /\ ram[33053] = Zero32

\* what a read handler of main RAM leaves alone
SpeedupFrame ==
    /\ Quiet
    /\ UNCHANGED <<mcuVars, shareram, share_bank, cards, timerVars, cryptVars, ack_due,
                   triggered, steps>>
    /\ UNCHANGED <<spriteVars, machineVars, passes, fires>>

\* READ32_MEMBER(pgm2_state::orleg2_speedup_r), installed by DRIVER_INIT(orleg2)
Orleg2SpeedupR(pc) ==
    /\ title = "orleg2"
    /\ ~spinning
    /\ spinning' = Orleg2Spins(pc, mainram)
    /\ read_value' = mainram[32837]
    /\ last_op' = [op |-> "orleg2_speedup_r", a |-> pc, d |-> Zero32, m |-> Zero32,
                   call |-> "none"]
    /\ SpeedupFrame

\* READ32_MEMBER(pgm2_state::kov2nl_speedup_r), installed by DRIVER_INIT(kov2nl)
Kov2nlSpeedupR(pc) ==
    /\ title = "kov2nl"
    /\ ~spinning
    /\ spinning' = Kov2nlSpins(pc, mainram)
    /\ read_value' = mainram[33052]
    /\ last_op' = [op |-> "kov2nl_speedup_r", a |-> pc, d |-> Zero32, m |-> Zero32,
                   call |-> "none"]
    /\ SpeedupFrame

\* a 32-bit store to main RAM, AM_RAM AM_SHARE("mainram")
MainramW(word, data) ==
    /\ ~spinning
    /\ mainram' = [mainram EXCEPT ![word] = data]
    /\ last_op' = [op |-> "mainram_w", a |-> word, d |-> data, m |-> FullMask, call |-> "none"]
    /\ Quiet
    /\ read_value' = Zero32
    /\ UNCHANGED <<mcuVars, shareram, share_bank, cards, timerVars, cryptVars, ack_due,
                   triggered, steps>>
    /\ UNCHANGED <<spriteVars, title, snapshot, regionVars, spinning, passes, fires>>

\* program counters and RAM words explored: the polling addresses and 0x10000000
PcValues == Orleg2Pcs \cup Kov2nlPcs \cup {268435456}
RamData == {Zero32, Widen(1), W32(\h80, 0, 0, 0)}

\* either set with a speed-up handler, after DRIVER_INIT and machine_reset()
InitP ==
    /\ InitMcu
    /\ cards = [s \in 0 .. 3 |-> NoCard]
    /\ InitCrypt
    /\ InitObservers
    /\ InitMachine
    /\ title \in RuntimeKeyed
    /\ sprite_predecrypted = 0
    /\ passes = 0
    /\ InitRegions

NextP ==
    \/ \E pc \in PcValues : Orleg2SpeedupR(pc)
    \/ \E pc \in PcValues : Kov2nlSpeedupR(pc)
    \/ \E w \in WatchedWords, d \in RamData : MainramW(w, d)
    \/ IgsInterrupt

SpecSpeedup == InitP /\ [][NextP]_vars

-----------------------------------------------------------------------------
(* The bank handoff: the main processor fills or reads its bank, flips the   *)
(* selector, and the MCU command works on the bank the processor has left.   *)

\* commands of a handoff: 0xC3 of 2 bytes to card offset 1, 0xC2 of 128 bytes from card
\* offset 0, all on slot 1; 0xE1 with sub-mode 2 and 1 and data 0x5A; 0xC7
HandoffWrites ==
    {<<RegOffset(0), w, FullMask>> :
         w \in {W32(2, 1, 5, \hC3), W32(128, 0, 5, \hC2), W32(\h5A, 2, 0, \hE1),
                W32(\h5A, 1, 0, \hE1), W32(0, 0, 0, \hC7)}}
    \cup {<<RegOffset(2), Widen(1), FullMask>>}

\* selector values written: odd and even, with other bits set
HandoffBanks == {<<3, 65535>>, <<65534, 65535>>}

HandoffMcuW(offset, data, mem_mask) == DeepStep /\ McuWrite(offset, data, mem_mask)
HandoffBankW(data, mem_mask) == DeepStep /\ ShareBankWrite(data, mem_mask)
HandoffRamW(offset, data) == DeepStep /\ ShareramWrite(offset, data)
HandoffRamR(offset) == DeepStep /\ ShareramRead(offset)

NextH ==
    \/ \E w \in HandoffWrites : HandoffMcuW(w[1], w[2], w[3])
    \/ \E b \in HandoffBanks : HandoffBankW(b[1], b[2])
    \/ \E d \in ShareData : HandoffRamW(0, d)
    \/ HandoffRamR(0)

SpecHandoff == InitF /\ [][NextH]_vars

-----------------------------------------------------------------------------
(* The card commands, over two inserted cards and argument bytes of all kinds *)

\* a second card image, with other bytes at other offsets
CardImage2 == [present |-> TRUE, data |-> (0 :> 32) @@ (1 :> 33) @@ (200 :> 34)]

\* cards in slots 1 and 2, or none at all
CardConfigs2 ==
    { [s \in 0 .. 3 |-> NoCard],
      [s \in 0 .. 3 |-> IF s = 1 THEN CardImage ELSE IF s = 2 THEN CardImage2 ELSE NoCard] }

\* command words of the card commands: 0xC8 on slots 1 and 2 (arg1 5, 2 and 6), at
\* offsets inside and outside the image, with data 0x77 and 0; the stubs with argument
\* bytes set; 0xC2 and 0xC3 of 2 and of 0 bytes
CardWords ==
    { W32(\h77, 1, 5, \hC8),
      W32(0, 200, 2, \hC8),
      W32(\h77, 255, 6, \hC8),
      W32(\h77, 1, 0, \hC8),
      W32(1, 2, 5, \hC1),
      W32(1, 2, 2, \hC4),
      W32(7, 0, 1, \hC5),
      W32(\hFF, \hFF, \hFF, \hC6),
      W32(\h53, \h47, \h49, \hC9),
      W32(0, 0, 0, \hC9),
      W32(2, 1, 5, \hC2),
      W32(2, 1, 6, \hC3),
      W32(0, 1, 5, \hC3) }

CardWrites ==
    {<<RegOffset(0), w, FullMask>> : w \in CardWords}
    \cup {<<RegOffset(1), w, FullMask>> : w \in AuxWords}
    \cup {<<RegOffset(2), Widen(1), FullMask>>}

InitK ==
    /\ InitMcu
    /\ cards \in CardConfigs2
    /\ InitCrypt
    /\ InitObservers
    /\ InitMachine
    /\ InitOrleg2

NextK ==
    \/ \E w \in CardWrites : McuW(w[1], w[2], w[3])
    \/ \E b \in BankWrites : ShareBankW(b[1], b[2])
    \/ \E o \in ShareOffsets, d \in ShareData : ShareramW(o, d)

SpecCards == InitK /\ [][NextK]_vars

-----------------------------------------------------------------------------
(* DRIVER_INIT as a step: from the regions as loaded to the regions the game  *)
(* runs on, followed by machine_reset() and the accesses to the decrypt       *)
(* registers.                                                                  *)

\* the DRIVER_INITs the GAME entries name
BootTitles == (Titles \ {"kov3"}) \cup Kov3Inits

\* what decrypt_kov3_module may read past the end of the region
ModuleStrays(t, buf) ==
    IF \E i \in DOMAIN buf : BitXor(i, ModuleAddrXor(t), 32) >= User1Bytes \div 2
    THEN StrayWords ELSE {0}

\* DRIVER_INIT_MEMBER(pgm2_state, <title>), with the functions it calls
DriverInit ==
    /\ init_log = <<>>
    /\ \E stray \in ModuleStrays(title, rom) :
           LET regs == RunCalls(InitProgram(title),
                                [user1 |-> rom, sprites_mask |-> sprites_mask,
                                 sprites_colour |-> sprites_colour], stray)
           IN  /\ rom' = regs.user1
               /\ sprites_mask' = regs.sprites_mask
               /\ sprites_colour' = regs.sprites_colour
    /\ init_log' = InitProgram(title)
    /\ sprite_predecrypted' = InitPredecrypted(title)
    /\ has_decrypted' = InitHasDecrypted(title)
    /\ passes' = InitPasses(title)
    /\ last_op' = [op |-> "driver_init", a |-> 0, d |-> Zero32, m |-> Zero32, call |-> "none"]
    /\ Quiet
    /\ read_value' = Zero32
    /\ UNCHANGED <<mcuVars, shareram, share_bank, cards, timerVars, encryption_table, ack_due,
                   triggered, steps>>
    /\ UNCHANGED <<spritekey, realspritekey, title, mainram, snapshot, spinning, fires>>

\* DRIVER_INIT has run
Booted == init_log # <<>>

\* machine_reset() and the decrypt registers, once the driver is initialised
BootReset == Booted /\ MachineReset
BootTableW(offset, data) == Booted /\ EncryptionW(offset, data)
BootTrigger(data) == Booted /\ EncryptionDoW(data)

\* the regions as loaded, the members as constructed, DRIVER_INIT not yet run
InitB ==
    /\ InitMcu
    /\ cards = [s \in 0 .. 3 |-> NoCard]
    /\ InitObservers
    /\ InitMachine
    /\ title \in BootTitles
    /\ encryption_table = [i \in 0 .. 255 |-> 0]
    /\ has_decrypted = 0
    /\ sprite_predecrypted = 0
    /\ passes = 0
    /\ rom \in {TaggedImage(ProgSample(title)), FlatImage(ProgSample(title), 65535)}
    /\ sprites_mask \in {TaggedImage(MaskSample(title)), FlatImage(MaskSample(title), 0)}
    /\ sprites_colour \in {TaggedImage(ColourSample(title)), FlatImage(ColourSample(title), 224)}
    /\ init_log = <<>>

NextB ==
    \/ DriverInit
    \/ BootReset
    \/ \E d \in TableData : BootTableW(0, d)
    \/ BootTrigger(Widen(1))

SpecBoot == InitB /\ [][NextB]_vars

-----------------------------------------------------------------------------
(* The positional decoders as steps of their own: iga_u12_decode and           *)
(* iga_u16_decode applied to the sprite-mask region, each at most once, in     *)
(* either order, over a prefix of the region or all of it.                     *)

\* word indices kept of the region: the first words, for every k in 0 .. 11 the even
\* and the odd word with only bit k of i >> 1 set, words with bits 0 .. 10 of i >> 1
\* all set, and the last words of the region
DecodeSample ==
    (0 .. 5) \cup {2 * Pow2(k) + p : k \in 0 .. 11, p \in 0 .. 1}
        \cup {4094, 4095, 8194, 8195, (MaskLen("orleg2") \div 2) - 2, (MaskLen("orleg2") \div 2) - 1}

\* the len arguments: nothing, an odd and an even number of bytes, 4096 words, the region
DecodeLens == {0, 7, 8, 8192, MaskLen("orleg2")}

\* the ixor arguments: the key of the sets keyed at run time, and two keys of the others
DecodeKeys == {0, U12Key("ddpdojh"), U16Key("kov3")}

\* the region as loaded
DecodeImages ==
    {TaggedImage(DecodeSample), FlatImage(DecodeSample, 0), FlatImage(DecodeSample, 65535)}

\* the decoder has not been called yet
NotCalled(xform) == \A k \in DOMAIN init_log : init_log[k].xform # xform

\* what a decoder call leaves alone
DecodeFrame ==
    /\ Quiet
    /\ read_value' = Zero32
    /\ UNCHANGED <<mcuVars, shareram, share_bank, cards, timerVars, encryption_table, ack_due,
                   triggered, steps, rom, sprites_colour, has_decrypted, passes,
                   sprite_predecrypted>>
    /\ UNCHANGED <<spritekey, realspritekey, title, mainram, snapshot, spinning, fires>>

\* iga_u12_decode(src, len, ixor) on the sprite-mask region
U12Call(len, ixor) ==
    /\ NotCalled("iga_u12_decode")
    /\ sprites_mask' = IgaU12Decode(sprites_mask, len, ixor)
    /\ init_log' = Append(init_log, InitCall("iga_u12_decode", "sprites_mask", len, ixor, 0, ""))
    /\ last_op' = [op |-> "iga_u12_decode", a |-> 0, d |-> Zero32, m |-> Zero32, call |-> "none"]
    /\ DecodeFrame

\* iga_u16_decode(src, len, ixor) on the sprite-mask region
U16Call(len, ixor) ==
    /\ NotCalled("iga_u16_decode")
    /\ sprites_mask' = IgaU16Decode(sprites_mask, len, ixor)
    /\ init_log' = Append(init_log, InitCall("iga_u16_decode", "sprites_mask", len, ixor, 0, ""))
    /\ last_op' = [op |-> "iga_u16_decode", a |-> 0, d |-> Zero32, m |-> Zero32, call |-> "none"]
    /\ DecodeFrame

\* the region as loaded, no decoder called yet
InitD ==
    /\ InitMcu
    /\ cards = [s \in 0 .. 3 |-> NoCard]
    /\ InitObservers
    /\ InitMachine
    /\ title = "orleg2"
    /\ encryption_table = [i \in 0 .. 255 |-> 0]
    /\ has_decrypted = 0
    /\ sprite_predecrypted = 0
    /\ passes = 0
    /\ rom = TaggedImage(ProgSample(title))
    /\ sprites_mask \in DecodeImages
    /\ sprites_colour = TaggedImage(ColourSample(title))
    /\ init_log = <<>>

NextD ==
    \/ \E len \in DecodeLens, ixor \in DecodeKeys : U12Call(len, ixor)
    \/ \E len \in DecodeLens, ixor \in DecodeKeys : U16Call(len, ixor)

SpecDecode == InitD /\ [][NextD]_vars

-----------------------------------------------------------------------------
(* The machine as a whole: the mailbox, the share RAM, the timer, the decrypt  *)
(* registers, the sprite key and machine_reset() in one run.                   *)

\* mailbox writes explored: the commands 0xE0 and 0xF6 and a word with command byte
\* 0x00, a word for register 1, the issue strobe and the acknowledge strobe
MachineWrites ==
    {<<RegOffset(0), w, FullMask>> :
         w \in {W32(\h12, \h34, \h56, \hE0), W32(0, 0, 0, \hF6), W32(\h11, \h22, \h33, 0)}}
    \cup {<<RegOffset(1), W32(\hCA, \hFE, 0, 1), FullMask>>}
    \cup {<<RegOffset(2), Widen(1), FullMask>>, <<RegOffset(5), Widen(1), FullMask>>}

\* no card inserted
InitM ==
    /\ Init
    /\ \A s \in 0 .. 3 : ~cards[s].present

NextM ==
    \/ \E w \in MachineWrites : McuW(w[1], w[2], w[3])
    \/ ShareBankW(1, 65535)
    \/ ShareramW(0, 60)
    \/ ShareramR(0)
    \/ TimePasses(0)
    \/ IgsInterrupt2
    \/ EncryptionW(0, 60)
    \/ EncryptionDoW(Widen(1))
    \/ SpriteEncryptionW(W32(\h12, \h34, \h56, \h78), FullMask)
    \/ MachineReset

SpecMachine == InitM /\ [][NextM]_vars

-----------------------------------------------------------------------------
(* Properties *)

\* the last step was a write that left register 2 nonzero: a command was issued
IssuedNow ==
    /\ last_op.op = "mcu_w"
    /\ (last_op.a \div 32768) % 8 = 2
    /\ mcu_regs[2] # Zero32

\* the last step was a write that left register 5 nonzero: an acknowledge
AckedNow ==
    /\ last_op.op = "mcu_w"
    /\ (last_op.a \div 32768) % 8 = 5
    /\ mcu_regs[5] # Zero32

\* the command byte, the argument bytes and the status field, read off the registers
CmdByte == mcu_regs[0][1]
Arg1Byte == mcu_regs[0][2]
StatusField == mcu_regs[3][3]

\* the 128 indices of a bank
BankIndices(b) == (b * 128) .. (b * 128 + 127)

\* the bank opposite to the one selector s gives the main processor
OppositeBank(s) == IF s % 2 = 0 THEN 1 ELSE 0

\* C1: every share-RAM byte a command reads or writes lies in the bank opposite to
\* the main processor's, (~ShareBank & 1), for all lengths up to 255.
C1_McuStaysInItsBank ==
    [][IssuedNow' => mcu_touched' \subseteq BankIndices(OppositeBank(share_bank))]_vars

\* C2: shareram_w stores the byte at index o + (s & 1) * 128, shareram_r reads that
\* index, and the index the MCU side uses for the same o and s is another one
\* (for every offset o, under each selector a share-RAM access or a bank write left).
C2_CpuBankAddressing ==
    /\ last_op.op = "shareram_w" =>
           shareram[last_op.a + (share_bank % 2) * 128] = last_op.d[1]
    /\ last_op.op = "shareram_r" =>
           read_value = Widen(shareram[last_op.a + (share_bank % 2) * 128])
    /\ last_op.op \in {"shareram_w", "shareram_r", "share_bank_w"} =>
           \A o \in 0 .. 127 :
               /\ CpuIndex(o, share_bank) = o + (share_bank % 2) * 128
               /\ McuIndex(o, share_bank) = o + OppositeBank(share_bank) * 128
               /\ CpuIndex(o, share_bank) # McuIndex(o, share_bank)

\* a byte written by shareram_w is in the main processor's bank while the selector is odd
C2_Witness ==
    /\ last_op.op = "shareram_w"
    /\ share_bank % 2 = 1
    /\ shareram[last_op.a + 128] = last_op.d[1]
    /\ last_op.d[1] # 0

\* C3, as stated: what a dispatch writes to registers 3 and 4 is not returned by
\* mcu_r before the completion interrupt it armed has fired.
C3_HiddenUntilInterrupt ==
    [][IssuedNow' =>
          /\ mcu_r(mcu_regs', 3 * 32768) = mcu_r(mcu_regs, 3 * 32768)
          /\ mcu_r(mcu_regs', 4 * 32768) = mcu_r(mcu_regs, 4 * 32768)]_vars

\* C3, amended: the dispatching write itself stores the status (and on 0xF6 the
\* latched results) where mcu_r returns them at once; the interrupt 0x46 it arms is
\* not raised by that write but strictly later, and raising it changes no register.
C3_StoredAtDispatch ==
    [][/\ IssuedNow' =>
             /\ mcu_r(mcu_regs', 3 * 32768)[3] \in {247, 244}
             /\ CmdByte = 246 =>
                    /\ mcu_r(mcu_regs', 3 * 32768)[1] = mcu_result0[1]
                    /\ mcu_r(mcu_regs', 3 * 32768)[2] = mcu_result0[2]
                    /\ mcu_r(mcu_regs', 3 * 32768)[4] = mcu_result0[4]
                    /\ mcu_r(mcu_regs', 4 * 32768) = mcu_result1
             /\ irq_raised' = 0
             /\ mcu_timer' > 0
       /\ irq_raised' = 70 =>
             /\ mcu_regs' = mcu_regs
             /\ mcu_timer = 0
             /\ since_arm > 0]_vars

\* a dispatch has changed the status field and its completion has not fired yet
C3_Witness ==
    /\ IssuedNow
    /\ StatusField = 247
    /\ mcu_timer > 0
    /\ irq_raised = 0

\* C4: an issue of 0xE0 latches registers 0 and 1 as result0 and result1, and its
\* completion interrupt is raised 30 ms after the issue, not earlier.
C4_PortTest ==
    /\ (IssuedNow /\ CmdByte = 224) =>
           /\ mcu_result0 = mcu_regs[0]
           /\ mcu_result1 = mcu_regs[1]
           /\ mcu_timer = 30000
           /\ since_arm = 0
    /\ (irq_raised = 70 /\ armer.by = "command" /\ armer.cmd = 224) =>
           since_arm = 30000
    /\ (mcu_timer # NotArmed /\ armer.by = "command" /\ armer.cmd = 224) =>
           mcu_timer + since_arm = 30000

\* the completion of a 0xE0 issue with a nonzero auxiliary word has fired
C4_Witness ==
    /\ irq_raised = 70
    /\ armer.by = "command"
    /\ armer.cmd = 224
    /\ mcu_result1 = W32(\hCA, \hFE, 0, 1)
    /\ mcu_result0[1] = 224

\* C5, as stated: after any issue, the first acknowledge sets the status field to
\* 0xF2, arms a 100-microsecond completion and clears lastCommand.
C5_FirstAckCompletes ==
    [][(AckedNow' /\ ack_due) =>
          /\ mcu_regs'[3][3] = 242
          /\ mcu_timer' = 100
          /\ since_arm' = 0
          /\ mcu_last_cmd' = 0]_vars

\* C5, amended: that holds after an issue of any command byte other than 0x00 and
\* 0xF6; after an issue of 0x00 or 0xF6 lastCommand is already 0 and the first
\* acknowledge changes neither the status field nor the pending completion.
C5_FirstAckByCommand ==
    [][(AckedNow' /\ ack_due) =>
          IF armer.cmd \notin {0, 246}
          THEN /\ mcu_regs'[3][3] = 242
               /\ mcu_timer' = 100
               /\ since_arm' = 0
               /\ mcu_last_cmd' = 0
          ELSE /\ mcu_regs'[3] = mcu_regs[3]
               /\ mcu_timer' = mcu_timer
               /\ since_arm' = since_arm
               /\ mcu_last_cmd = 0
               /\ mcu_last_cmd' = 0]_vars

\* the first acknowledge after an issue of 0xFF has just been written
C5_Witness ==
    /\ AckedNow
    /\ armer.by = "ack"
    /\ armer.cmd = 255
    /\ StatusField = 242
    /\ mcu_timer = 100
    /\ mcu_last_cmd = 0

\* C6: an acknowledge written while lastCommand is 0 changes nothing but register 5.
C6_IdleAckIsNoOp ==
    [][(AckedNow' /\ mcu_last_cmd = 0) =>
          /\ \A r \in 0 .. 4 : mcu_regs'[r] = mcu_regs[r]
          /\ UNCHANGED <<mcu_result0, mcu_result1, mcu_last_cmd, shareram, cards>>
          /\ UNCHANGED <<mcu_timer, since_arm, armer>>
          /\ irq_raised' = 0]_vars

\* an acknowledge was written with no command pending while a completion was armed,
\* and the completion is still the one the issue armed
C6_Witness ==
    /\ AckedNow
    /\ mcu_last_cmd = 0
    /\ armer.by = "command"
    /\ mcu_timer = 1000
    /\ StatusField \in {244, 247}

\* the command bytes of the dispatch table
TableBytes == {246, 224, 225, 192, 193, 194, 195, 196, 197, 198, 199, 200, 201}

\* C7: an issue of a byte outside the dispatch table sets the status field to 0xF4,
\* changes no result, share-RAM byte or card, logs one line and arms the completion.
C7_UnknownCommand ==
    [][(IssuedNow' /\ CmdByte \notin TableBytes) =>
          /\ mcu_regs'[3][3] = 244
          /\ UNCHANGED <<mcu_result0, mcu_result1, shareram, cards>>
          /\ log_lines' = 1
          /\ mcu_timer' = 1000
          /\ since_arm' = 0
          /\ irq_raised' = 0]_vars

\* 0xFF has been issued and answered with the error status
C7_Witness ==
    /\ IssuedNow
    /\ CmdByte = 255
    /\ StatusField = 244
    /\ log_lines = 1
    /\ mcu_timer = 1000

\* C8: an issue of 0xC0 answers 0xF4 exactly when slot arg1 & 3 is empty and 0xF7
\* otherwise, sets result0 to 0xC0 and changes no card and no share-RAM byte.
C8_CardPresence ==
    [][(IssuedNow' /\ CmdByte = 192) =>
          /\ mcu_regs'[3][3] = 244 <=> ~cards[Arg1Byte % 4].present
          /\ mcu_regs'[3][3] = 247 <=> cards[Arg1Byte % 4].present
          /\ mcu_result0' = Widen(192)
          /\ UNCHANGED <<shareram, cards>>]_vars

\* 0xC0 has been issued for a slot that holds a card, selected by arg1 = 5
C8_Witness ==
    /\ IssuedNow
    /\ CmdByte = 192
    /\ Arg1Byte = 5
    /\ cards[1].present
    /\ StatusField = 247
    /\ mcu_result0 = Widen(192)

\* C9: an issue of 0xC7 sets result1 to 0xF81F0000 and result0 to 0xC7 with status
\* 0xF7, whatever the argument bytes and the cards.
C9_CardId ==
    (IssuedNow /\ CmdByte = 199) =>
        /\ mcu_result1 = W32(\hF8, \h1F, 0, 0)
        /\ mcu_result0 = Widen(199)
        /\ StatusField = 247

\* 0xC7 has been issued with nonzero argument bytes while a card is inserted
C9_Witness ==
    /\ IssuedNow
    /\ CmdByte = 199
    /\ Arg1Byte # 0
    /\ cards[1].present
    /\ mcu_result1 = W32(\hF8, \h1F, 0, 0)

\* C10: a trigger write that follows another one changes neither the program ROM
\* nor the decrypt flag, whatever was written to the encryption table in between.
C10_SecondTriggerIsNoOp ==
    [][(last_op'.op = "encryption_do_w" /\ triggered) =>
          UNCHANGED <<rom, has_decrypted>>]_vars

\* a second trigger write came after the table was rewritten behind a first one
\* that had decrypted the ROM
C10_Witness ==
    /\ last_op.op = "encryption_do_w"
    /\ triggered
    /\ has_decrypted = 1
    /\ encryption_table[0] # 0
    /\ rom # DecrypterRom(encryption_table, rom)
    /\ \E b \in [0 .. (RomWords - 1) -> RomValues] :
           rom = DecrypterRom([i \in 0 .. 255 |-> 0], b)

\* the sets whose DRIVER_INIT decrypts the program ROM
DecryptedAtInit == {"ddpdojh", "kov3", "kof98umh"}

\* C11: over driver init, machine resets, table writes and trigger writes the program
\* ROM gets at most one decrypter_rom pass; the decrypt flag never goes back from 1 to
\* 0, not even on machine reset; and on the sets decrypted at init the flag is 1 from
\* the start and every trigger write changes neither the ROM nor the flag.
C11_AtMostOneDecryptPass ==
    /\ [](passes <= 1)
    /\ [](title \in DecryptedAtInit => has_decrypted = 1)
    /\ [][/\ has_decrypted = 1 => has_decrypted' = 1
          /\ (last_op'.op = "encryption_do_w" /\ title \in DecryptedAtInit) =>
                 UNCHANGED <<rom, has_decrypted, passes>>]_vars

\* a machine reset came after the trigger had decrypted a run-time keyed set, and the
\* flag is still 1
C11_Witness ==
    /\ last_op.op = "machine_reset"
    /\ title = "orleg2"
    /\ triggered
    /\ has_decrypted = 1
    /\ passes = 1
    /\ encryption_table[0] # 0

\* C12: a write to the sprite key register merges the written lanes into m_spritekey
\* and then, when m_sprite_predecrypted is 0, sets m_realspritekey to the bit reversal
\* of m_spritekey ^ 0x90055555 (bit i becomes bit 31 - i); when it is 1 the write
\* leaves m_realspritekey as it was.
C12_SpriteKeyWrite ==
    [][last_op'.op = "sprite_encryption_w" =>
          /\ \A k \in 1 .. 4 :
                 spritekey'[k] = BitOr(BitAnd(spritekey[k], 255 - last_op'.m[k], 8),
                                       BitAnd(last_op'.d[k], last_op'.m[k], 8), 8)
          /\ IF sprite_predecrypted = 0
             THEN \A i \in 0 .. 31 :
                      Bit32(realspritekey', 31 - i) =
                          (Bit32(spritekey', i) + Bit32(W32(\h90, \h05, \h55, \h55), i)) % 2
             ELSE realspritekey' = realspritekey]_vars

\* the low half of the key register was written over an earlier full write on a set
\* whose sprites are keyed at run time, and the derived key is the reversed one
C12_Witness ==
    /\ last_op.op = "sprite_encryption_w"
    /\ last_op.m = W32(0, 0, 255, 255)
    /\ sprite_predecrypted = 0
    /\ spritekey = W32(\h80, 0, \h56, \h78)
    /\ realspritekey = W32(\hB4, \hC0, \hA0, \h08)
    /\ realspritekey # Xor32(spritekey, W32(\h90, \h05, \h55, \h55))

\* the commands that access the card's bytes
CardAccessCmds == {194, 195, 200}

\* an issue of a card-access command whose slot, arg1 & 3, holds no card
EmptySlotAccess ==
    /\ IssuedNow'
    /\ CmdByte \in CardAccessCmds
    /\ ~cards[Arg1Byte % 4].present

\* C13 as stated: on an empty slot 0xC2, 0xC3 and 0xC8 read and write no card byte and
\* no share-RAM byte, and result0 and result1 keep their previous values.
C13_EmptySlotKeepsResults ==
    [][EmptySlotAccess =>
          /\ mcu_touched' = {}
          /\ UNCHANGED <<shareram, cards>>
          /\ UNCHANGED <<mcu_result0, mcu_result1>>]_vars

\* C13 amended: on an empty slot 0xC2, 0xC3 and 0xC8 read and write no card byte and no
\* share-RAM byte and result1 keeps its value, but result0 is set to the command byte;
\* the status is 0xF7 and the completion is armed as for every command.
C13_EmptySlotEchoesCommand ==
    [][EmptySlotAccess =>
          /\ mcu_touched' = {}
          /\ UNCHANGED <<shareram, cards, share_bank>>
          /\ mcu_result1' = mcu_result1
          /\ mcu_result0' = Widen(CmdByte)
          /\ mcu_regs'[3][3] = 247
          /\ mcu_timer' = 1000]_vars

\* 0xC3 has been issued for slot 1 while no card is inserted, over a result0 left by
\* another command
C13_Witness ==
    /\ IssuedNow
    /\ CmdByte = 195
    /\ Arg1Byte = 5
    /\ ~cards[1].present
    /\ mcu_result0 = Widen(195)
    /\ mcu_touched = {}
    /\ StatusField = 247

\* a completion is pending
Armed == mcu_timer # NotArmed

\* the last step was the timer callback raising interrupt 0x46
Fired == irq_raised = 70

\* a step that adjusts the timer: an issue, or an acknowledge while a command is pending
ArmingStep ==
    /\ last_op'.op = "mcu_w"
    /\ \/ last_op'.call = "command"
       \/ last_op'.call = "ack" /\ mcu_last_cmd # 0

\* every issue, whatever its command byte, arms the completion with the delay of the
\* command, 30 ms for 0xE0 and 1 ms otherwise
IssueArms ==
    [][IssuedNow' =>
          /\ mcu_timer' = (IF CmdByte = 224 THEN 30000 ELSE 1000)
          /\ since_arm' = 0]_vars

\* the callback runs only on a pending completion, at the delay it was armed with, and
\* leaves none pending
FiresOnceAtDelay ==
    [][Fired' =>
          /\ Armed
          /\ since_arm' = armer'.delay
          /\ ~Armed']_vars

\* C14 as stated: every issue arms the completion, once a completion is armed a 0x46
\* interrupt eventually fires, and it fires once and at the armed delay.
C14_ArmedEventuallyFires ==
    /\ IssueArms
    /\ FiresOnceAtDelay
    /\ Armed ~> Fired

\* C14 amended: every issue arms the completion; the interrupt fires once and at the
\* armed delay; a pending completion eventually fires unless the main processor keeps
\* re-arming the timer forever.
C14_FiresUnlessRearmedForever ==
    /\ IssueArms
    /\ FiresOnceAtDelay
    /\ (Armed ~> Fired) \/ []<><<ArmingStep>>_mcu_timer

\* the completion of 0xF6 fired 1 ms after its issue, which had replaced the completion
\* of an earlier command
C14_Witness ==
    /\ Fired
    /\ CmdByte = 246
    /\ armer = [by |-> "command", cmd |-> 246, delay |-> 1000]
    /\ since_arm = 1000
    /\ arms = 2
    /\ fires = 1

\* an arming step replaces whatever was pending: the timer then runs for the new delay,
\* counted from that step
ArmingReplaces ==
    [][ArmingStep =>
          /\ mcu_timer' = armer'.delay
          /\ since_arm' = 0
          /\ armer'.by = last_op'.call
          /\ armer'.delay = (IF last_op'.call = "ack" THEN 100
                             ELSE IF CmdByte' = 224 THEN 30000 ELSE 1000)]_vars

\* C15: at most one completion is pending: an issue or an effective acknowledge made
\* while one is pending replaces it, only the completion armed last fires, and the
\* 0x46 interrupts never outnumber the arming operations.
C15_SinglePendingCompletion ==
    /\ [](fires <= arms)
    /\ ArmingReplaces
    /\ [][Fired' => (Armed /\ ~Armed' /\ since_arm' = armer'.delay)]_vars

\* an acknowledge replaced the completion of its command, and the only interrupt came
\* 100 us after the acknowledge
C15_Witness ==
    /\ Fired
    /\ armer.by = "ack"
    /\ armer.cmd = 255
    /\ since_arm = 100
    /\ arms = 2
    /\ fires = 1

\* C16: loading a save state reproduces every variable the register handlers, the
\* command dispatcher and the decrypt trigger read or write, the program ROM the
\* trigger rewrites included, so that what follows the load runs as it would have
\* run from the moment of the save.
C16_LoadReproducesState ==
    last_op.op = "state_load" =>
        /\ encryption_table = snapshot.encryption_table
        /\ has_decrypted = snapshot.has_decrypted
        /\ spritekey = snapshot.spritekey
        /\ realspritekey = snapshot.realspritekey
        /\ mcu_regs = snapshot.mcu_regs
        /\ mcu_result0 = snapshot.mcu_result0
        /\ mcu_result1 = snapshot.mcu_result1
        /\ mcu_last_cmd = snapshot.mcu_last_cmd
        /\ shareram = snapshot.shareram
        /\ share_bank = snapshot.share_bank
        /\ rom = snapshot.rom_then

\* what an issue of 0xF6 leaves besides register 3: register 4 holds result1,
\* lastCommand is 0, and the results, share RAM and the cards are as before; an
\* acknowledge changes no result
FetchFrame ==
    /\ [][(IssuedNow' /\ CmdByte = 246) =>
             /\ mcu_regs'[4] = mcu_result1
             /\ mcu_last_cmd' = 0
             /\ UNCHANGED <<mcu_result0, mcu_result1, shareram, cards>>]_vars
    /\ [][AckedNow' => UNCHANGED <<mcu_result0, mcu_result1>>]_vars

\* C17 as stated: after an issue of 0xF6 register 3 holds result0 and register 4 holds
\* result1, lastCommand is 0, and result0, result1, share RAM and the cards are
\* unchanged.
C17_FetchReturnsResults ==
    /\ FetchFrame
    /\ [][(IssuedNow' /\ CmdByte = 246) => mcu_regs'[3] = mcu_result0]_vars

\* C17 amended: after an issue of 0xF6 register 3 holds result0 in bits 0..15 and
\* 24..31 and the status 0xF7 in bits 16..23, register 4 holds result1, lastCommand is
\* 0, and result0, result1, share RAM and the cards are unchanged.
C17_FetchReturnsResultsUnderStatus ==
    /\ FetchFrame
    /\ [][(IssuedNow' /\ CmdByte = 246) =>
             /\ \A k \in {1, 2, 4} : mcu_regs'[3][k] = mcu_result0[k]
             /\ mcu_regs'[3][3] = 247]_vars

\* 0xF6 was issued after 0xE0 had latched the word 0x123456E0 and been acknowledged:
\* register 3 reads 0x12F756E0
C17_Witness ==
    /\ IssuedNow
    /\ CmdByte = 246
    /\ mcu_regs[5] # Zero32
    /\ mcu_result0 = W32(\h12, \h34, \h56, \hE0)
    /\ mcu_regs[3] = W32(\h12, \hF7, \h56, \hE0)
    /\ mcu_regs[4] = mcu_result1
    /\ mcu_last_cmd = 0

\* the last step was a read through a speed-up handler
SpeedupReadNow == last_op.op \in {"orleg2_speedup_r", "kov2nl_speedup_r"}

\* the word a plain read of the handler's address returns: main RAM word 0x20114 / 4
\* on orleg2, 0x20470 / 4 on kov2nl
PolledWord == IF title = "orleg2" THEN 32837 ELSE 33052

\* C18: a speed-up handler returns the main RAM word at its address, for every program
\* counter and RAM content, and changes no state; it suspends the main processor, until
\* the next interrupt, exactly when the program counter is a polling address of the set
\* and the polled word and the word after it are both zero.
C18_SpeedupIsPlainRead ==
    /\ [][SpeedupReadNow' =>
             /\ read_value' = mainram[PolledWord]
             /\ UNCHANGED <<mcuVars, shareram, share_bank, cards, timerVars, cryptVars,
                            spriteVars, machineVars>>
             /\ irq_raised' = 0
             /\ spinning' <=>
                    /\ last_op'.a \in (IF title = "orleg2" THEN {268630764, 268630456}
                                       ELSE {268778132, 268776236, 268776060})
                    /\ mainram[PolledWord] = Zero32
                    /\ mainram[PolledWord + 1] = Zero32]_vars
    /\ [][irq_raised' # 0 => ~spinning']_vars
    /\ [](spinning => SpeedupReadNow)

\* orleg2 polled its word at a polling address while that word was zero and the word
\* after it was not: the read returned zero and the processor kept running
C18_Witness ==
    /\ last_op.op = "orleg2_speedup_r"
    /\ last_op.a = 268630456
    /\ mainram[32837] = Zero32
    /\ mainram[32838] # Zero32
    /\ read_value = Zero32
    /\ ~spinning

\* the share-RAM index of logical offset o for the main processor under a selector
\* whose bit 0 is b
LogicalIndex(o, b) == o + 128 * b

\* bit 0 of the selector, and bit 0 once toggled
SelectorBit == share_bank % 2
ToggledBit == 1 - (share_bank % 2)

\* C19: with n <= 128, what 0xC3 transfers to the card are the bytes at the main
\* processor's logical offsets 0..n-1 under the selector with bit 0 toggled; 0xC2 and
\* 0xE1 deposit at the logical offsets of the toggled selector and leave the offsets of
\* the present one as they are, so the processor reads the deposit only after toggling
\* bit 0; the other selector bits do not enter either agent's addressing.
C19_BankHandoff ==
    /\ [][(IssuedNow' /\ CmdByte = 195 /\ cards[Arg1Byte % 4].present
              /\ mcu_regs[0][4] <= 128) =>
             \A i \in 0 .. (mcu_regs[0][4] - 1) :
                 cards'[Arg1Byte % 4].data[mcu_regs[0][3] + i] =
                     shareram[LogicalIndex(i, ToggledBit)]]_vars
    /\ [][(IssuedNow' /\ CmdByte = 194 /\ cards[Arg1Byte % 4].present
              /\ mcu_regs[0][4] <= 128) =>
             /\ \A i \in 0 .. (mcu_regs[0][4] - 1) :
                    shareram'[LogicalIndex(i, ToggledBit)] =
                        (IF (mcu_regs[0][3] + i) \in DOMAIN cards[Arg1Byte % 4].data
                         THEN cards[Arg1Byte % 4].data[mcu_regs[0][3] + i] ELSE 255)
             /\ \A o \in 0 .. 127 :
                    shareram'[LogicalIndex(o, SelectorBit)] =
                        shareram[LogicalIndex(o, SelectorBit)]
             /\ share_bank' = share_bank]_vars
    /\ [][(IssuedNow' /\ CmdByte = 225 /\ mcu_regs[0][3] = 2) =>
             /\ \A o \in 0 .. 127 :
                    /\ shareram'[LogicalIndex(o, ToggledBit)] = mcu_regs[0][4]
                    /\ shareram'[LogicalIndex(o, SelectorBit)] =
                           shareram[LogicalIndex(o, SelectorBit)]
             /\ share_bank' = share_bank]_vars
    /\ [][last_op'.op = "shareram_r" =>
             read_value' = Widen(shareram[LogicalIndex(last_op'.a, SelectorBit)])]_vars
    /\ [][last_op'.op = "shareram_w" =>
             /\ shareram'[LogicalIndex(last_op'.a, SelectorBit)] = last_op'.d[1]
             /\ \A p \in ShareIndices \ {LogicalIndex(last_op'.a, SelectorBit)} :
                    shareram'[p] = shareram[p]]_vars

\* the byte the main processor wrote at offset 0 under selector 0 reached the card at
\* the offset 0xC3 named, after the selector was set to 3
C19_Witness ==
    /\ IssuedNow
    /\ CmdByte = 195
    /\ share_bank = 3
    /\ shareram[0] = 60
    /\ shareram[128] = 0
    /\ cards[1].data[1] = 60
    /\ cards[1].data[2] = 0

\* C20: an issue of 0xE1 with sub-mode 2 sets the 128 bytes of the bank opposite to the
\* main processor's to the data byte and leaves the 128 bytes of the processor's bank
\* as they are; with another sub-mode it leaves share RAM as it is; either way result0
\* becomes 0xE1 and result1 becomes 0.
C20_FillOppositeBank ==
    [][(IssuedNow' /\ CmdByte = 225) =>
          /\ IF mcu_regs[0][3] = 2
             THEN /\ \A p \in BankIndices(OppositeBank(share_bank)) :
                         shareram'[p] = mcu_regs[0][4]
                  /\ \A p \in BankIndices(1 - OppositeBank(share_bank)) :
                         shareram'[p] = shareram[p]
             ELSE shareram' = shareram
          /\ mcu_result0' = Widen(225)
          /\ mcu_result1' = Zero32]_vars

\* 0xE1 with sub-mode 2 filled bank 0 with 0x5A under selector 3, and the byte the main
\* processor had written to its own bank is still there
C20_Witness ==
    /\ IssuedNow
    /\ CmdByte = 225
    /\ mcu_regs[0][3] = 2
    /\ share_bank = 3
    /\ \A p \in 0 .. 127 : shareram[p] = 90
    /\ shareram[128] = 60
    /\ mcu_result0 = Widen(225)
    /\ mcu_result1 = Zero32

\* the argument bytes of the command word: slot, offset and length or data
SlotByte == Arg1Byte % 4
OffsetByte == mcu_regs[0][3]
LengthByte == mcu_regs[0][4]

\* an issue of command byte c whose slot, arg1 & 3, holds a card
CardIssue(c) ==
    /\ IssuedNow'
    /\ CmdByte = c
    /\ cards[SlotByte].present

\* the byte of a card at an offset
CardByteAt(card, o) == IF o \in DOMAIN card.data THEN card.data[o] ELSE 255

\* C21: an issue of 0xC2 on an occupied slot stores, for every i below arg3, the card
\* byte at offset arg2 + i at index i of the bank opposite to the main processor's,
\* leaves the bytes of that bank from index arg3 on, every card and result1 as they
\* are, and sets result0 to 0xC2.
C21_CardToShareRam ==
    [][CardIssue(194) =>
          /\ \A i \in 0 .. (LengthByte - 1) :
                 /\ OppositeBank(share_bank) * 128 + i \in BankIndices(OppositeBank(share_bank))
                 /\ shareram'[OppositeBank(share_bank) * 128 + i] =
                        CardByteAt(cards[SlotByte], OffsetByte + i)
          /\ \A p \in BankIndices(OppositeBank(share_bank)) :
                 p - OppositeBank(share_bank) * 128 >= LengthByte => shareram'[p] = shareram[p]
          /\ cards' = cards
          /\ mcu_result0' = Widen(194)
          /\ mcu_result1' = mcu_result1]_vars

\* C22: an issue of 0xC3 on an occupied slot writes, for every i below arg3, the byte
\* at index i of the bank opposite to the main processor's to card offset arg2 + i,
\* changes no share-RAM byte, no other slot and no other offset of the card, sets
\* result0 to 0xC3 and leaves result1 as it is.
C22_ShareRamToCard ==
    [][CardIssue(195) =>
          /\ \A i \in 0 .. (LengthByte - 1) :
                 /\ OppositeBank(share_bank) * 128 + i \in BankIndices(OppositeBank(share_bank))
                 /\ CardByteAt(cards'[SlotByte], OffsetByte + i) =
                        shareram[OppositeBank(share_bank) * 128 + i]
          /\ shareram' = shareram
          /\ \A s \in (0 .. 3) \ {SlotByte} : cards'[s] = cards[s]
          /\ \A o \in (0 .. 511) \ (OffsetByte .. (OffsetByte + LengthByte - 1)) :
                 CardByteAt(cards'[SlotByte], o) = CardByteAt(cards[SlotByte], o)
          /\ mcu_result0' = Widen(195)
          /\ mcu_result1' = mcu_result1]_vars

\* C23: an issue of 0xC8 on an occupied slot writes arg3 at offset arg2 of that card
\* and changes no other byte of it, no other slot and no share-RAM byte; result0
\* becomes 0xC8 and result1 stays.
C23_WriteByte ==
    [][CardIssue(200) =>
          /\ cards'[SlotByte].present
          /\ CardByteAt(cards'[SlotByte], OffsetByte) = LengthByte
          /\ OffsetByte \in DOMAIN cards'[SlotByte].data
          /\ \A o \in (0 .. 511) \ {OffsetByte} :
                 /\ CardByteAt(cards'[SlotByte], o) = CardByteAt(cards[SlotByte], o)
                 /\ o \in DOMAIN cards'[SlotByte].data <=> o \in DOMAIN cards[SlotByte].data
          /\ \A s \in (0 .. 3) \ {SlotByte} : cards'[s] = cards[s]
          /\ shareram' = shareram
          /\ share_bank' = share_bank
          /\ mcu_result0' = Widen(200)
          /\ mcu_result1' = mcu_result1]_vars

\* 0xC8 wrote 0 at offset 200 of the card in slot 2, over the byte 34 of its image; the
\* card in slot 1 is as it was inserted
C23_Witness ==
    /\ IssuedNow
    /\ CmdByte = 200
    /\ Arg1Byte = 2
    /\ cards[2].present
    /\ cards[2].data[200] = 0
    /\ cards[2].data[0] = 32
    /\ cards[1] = CardImage
    /\ mcu_result0 = Widen(200)

\* the command bytes that are acknowledged and do nothing else
StubCmds == {193, 196, 197, 198, 201}

\* C24: an issue of 0xC1, 0xC4, 0xC5, 0xC6 or 0xC9 sets result0 to the command byte
\* and the status to 0xF7, whatever the argument bytes and the cards, and changes
\* neither result1 nor share RAM nor a card.
C24_StubsAcknowledge ==
    [][(IssuedNow' /\ CmdByte \in StubCmds) =>
          /\ mcu_result0' = Widen(CmdByte)
          /\ mcu_regs'[3][3] = 247
          /\ UNCHANGED <<mcu_result1, shareram, share_bank, cards>>
          /\ mcu_touched' = {}
          /\ log_lines' = 0]_vars

\* 0xC9 was issued with the password bytes 'I', 'G', 'S' while no card is inserted
C24_Witness ==
    /\ IssuedNow
    /\ CmdByte = 201
    /\ Arg1Byte = 73
    /\ OffsetByte = 71
    /\ LengthByte = 83
    /\ \A s \in 0 .. 3 : ~cards[s].present
    /\ mcu_result0 = Widen(201)
    /\ StatusField = 247

\* C25: every issue puts the dispatch status in bits 16..23 of register 3, 0xF4 for a
\* byte outside the dispatch table and for 0xC0 on an empty slot and 0xF7 otherwise, and
\* arms the completion with the delay of the command, 30 ms for 0xE0 and 1 ms otherwise;
\* unless the command is 0xF6 the other 24 bits of register 3 and register 4 stay.
C25_StatusAndDelayOnly ==
    [][IssuedNow' =>
          /\ mcu_regs'[3][3] =
                 (IF CmdByte \notin TableBytes \/ (CmdByte = 192 /\ ~cards[SlotByte].present)
                  THEN 244 ELSE 247)
          /\ mcu_timer' = (IF CmdByte = 224 THEN 30000 ELSE 1000)
          /\ since_arm' = 0
          /\ armer'.by = "command"
          /\ CmdByte # 246 =>
                 /\ \A k \in {1, 2, 4} : mcu_regs'[3][k] = mcu_regs[3][k]
                 /\ mcu_regs'[4] = mcu_regs[4]]_vars

\* 0xE0 was issued over a register 3 the main processor had written: the results are
\* latched, and of register 3 only the status field has changed
C25_Witness ==
    /\ IssuedNow
    /\ CmdByte = 224
    /\ mcu_result0 = W32(\h12, \h34, \h56, \hE0)
    /\ mcu_regs[3] = W32(\h11, \hF7, \h33, \h44)
    /\ mcu_regs[4] = Zero32
    /\ mcu_timer = 30000

\* an exchange is pending: a command was issued, its completion has not fired and no
\* acknowledge was written since
PendingExchange ==
    /\ ack_due
    /\ Armed
    /\ armer.by = "command"

\* the status an issue of the command byte in register 0 stores
IssueStatus ==
    IF CmdByte \notin TableBytes \/ (CmdByte = 192 /\ ~cards[SlotByte].present) THEN 244 ELSE 247

\* an issue made while an exchange is pending stores its own status and replaces the
\* pending completion by its own
ReissueReplaces ==
    [][(IssuedNow' /\ PendingExchange) =>
          /\ mcu_regs'[3][3] = IssueStatus
          /\ mcu_timer' = (IF CmdByte = 224 THEN 30000 ELSE 1000)
          /\ since_arm' = 0
          /\ armer' = [by |-> "command", cmd |-> CmdByte, delay |-> mcu_timer']
          /\ irq_raised' = 0]_vars

\* an acknowledge leaves lastCommand 0 and at most the one completion pending
AckClears ==
    [][AckedNow' =>
          /\ mcu_last_cmd' = 0
          /\ IF mcu_last_cmd # 0
             THEN /\ mcu_regs'[3][3] = 242
                  /\ mcu_timer' = 100
                  /\ armer'.by = "ack"
             ELSE UNCHANGED <<mcu_timer, since_arm, armer>> /\ mcu_regs'[3] = mcu_regs[3]]_vars

\* C26 as stated: an issue made while an exchange is pending is accepted: lastCommand
\* becomes the new command byte, the status field the new command's status, the pending
\* completion the new command's, and one acknowledge afterwards clears both exchanges.
C26_ReissueTakesCommandByte ==
    /\ ReissueReplaces
    /\ AckClears
    /\ [][(IssuedNow' /\ PendingExchange) => mcu_last_cmd' = CmdByte]_vars

\* C26 amended: as stated, except that lastCommand becomes 0 when the new command is
\* 0xF6; the acknowledge that follows then finds no command pending and leaves the
\* status field and the completion of the 0xF6 as they are.
C26_ReissueTakesCommandByteOrZero ==
    /\ ReissueReplaces
    /\ AckClears
    /\ [][(IssuedNow' /\ PendingExchange) =>
             mcu_last_cmd' = (IF CmdByte = 246 THEN 0 ELSE CmdByte)]_vars

\* 0xC7 was issued while the exchange of 0xE0 was pending, and one acknowledge followed:
\* three adjustments of the timer, none fired, the 100 us completion the only one pending
C26_Witness ==
    /\ AckedNow
    /\ armer = [by |-> "ack", cmd |-> 199, delay |-> 100]
    /\ mcu_result1 = W32(\hF8, \h1F, 0, 0)
    /\ arms = 3
    /\ fires = 0
    /\ mcu_last_cmd = 0
    /\ StatusField = 242
    /\ mcu_timer = 100

\* what the protocol works on: the mailbox, the latched results, lastCommand, share RAM,
\* the selector and the cards
protocolVars == <<mcu_regs, mcu_result0, mcu_result1, mcu_last_cmd, shareram, share_bank, cards>>

\* C27: the timer callback raises interrupt 0x46 and the frame tick raises interrupt
\* 0x47, nothing else raises either, and neither changes a register, a result,
\* lastCommand, share RAM, the selector or a card; the frame tick also leaves the
\* pending completion as it is.
C27_InterruptsChangeNoProtocolState ==
    /\ [][last_op'.op = "igs_interrupt2" =>
             /\ irq_raised' = 70
             /\ UNCHANGED protocolVars
             /\ UNCHANGED <<cryptVars, spriteVars>>]_vars
    /\ [][last_op'.op = "igs_interrupt" =>
             /\ irq_raised' = 71
             /\ UNCHANGED protocolVars
             /\ UNCHANGED <<mcu_timer, since_arm, armer, arms, fires>>
             /\ UNCHANGED <<cryptVars, spriteVars>>]_vars
    /\ [][irq_raised' # 0 => last_op'.op \in {"igs_interrupt2", "igs_interrupt"}]_vars

\* the frame tick came after the completion of 0xC7 had fired and before its
\* acknowledge: the latched results and lastCommand are those of the 0xC7
C27_Witness ==
    /\ last_op.op = "igs_interrupt"
    /\ irq_raised = 71
    /\ fires = 1
    /\ mcu_timer = NotArmed
    /\ mcu_last_cmd = 199
    /\ mcu_result1 = W32(\hF8, \h1F, 0, 0)
    /\ StatusField = 247

\* C28: the write that arms a completion never raises its interrupt: every armed delay
\* is positive, 100 us for an acknowledge, 30 ms for 0xE0 and 1 ms for every other
\* command, so the acknowledge completion is the shortest and that of 0xE0 the longest,
\* and the interrupt comes only after that much time.
C28_NeverFiresInArmingWrite ==
    /\ [][ArmingStep =>
             /\ mcu_timer' > 0
             /\ irq_raised' = 0
             /\ fires' = fires]_vars
    /\ [][Fired' => (last_op'.op = "igs_interrupt2" /\ since_arm' > 0 /\ since_arm' = armer'.delay)]_vars
    /\ [](Armed =>
             armer.delay = (IF armer.by = "ack" THEN 100
                            ELSE IF armer.cmd = 224 THEN 30000 ELSE 1000))
    /\ [](\A c \in TableBytes \cup {0, 255} :
               /\ 0 < FromUsec(AckDelay)
               /\ FromUsec(AckDelay) < FromMsec(CmdDelay(c))
               /\ FromMsec(CmdDelay(c)) <= FromMsec(CmdDelay(224))
               /\ c # 224 => FromMsec(CmdDelay(c)) < FromMsec(CmdDelay(224)))

\* the completion of an acknowledge fired 100 us after the acknowledge, which had
\* replaced the 30 ms completion of 0xE0
C28_Witness ==
    /\ Fired
    /\ armer = [by |-> "ack", cmd |-> 224, delay |-> 100]
    /\ since_arm = 100
    /\ arms = 2
    /\ fires = 1
    /\ mcu_result0 = W32(\h12, \h34, \h56, \hE0)

\* the last step was DRIVER_INIT
DriverInitNow == last_op'.op = "driver_init"

\* the functions and regions of the transform calls made, in order
CallsMade(log) == [k \in DOMAIN log |-> <<log[k].xform, log[k].region>>]

\* the optional module-layer call on the program ROM, kov3 variants only
ModuleCalls ==
    IF title \in {"kov3_104", "kov3_102", "kov3_100"}
    THEN << <<"decrypt_kov3_module", "user1">> >> ELSE <<>>

\* the positional decoders
Decoders == {"iga_u12_decode", "iga_u16_decode"}

\* the decoder calls are keyed with zero exactly on the sets keyed at run time
DecoderKeys(log) ==
    \A k \in DOMAIN log :
        log[k].xform \in Decoders => (log[k].key = 0 <=> title \in {"orleg2", "kov2nl"})

\* C29 as stated: DRIVER_INIT runs the module-layer transform (kov3 variants only), then
\* the positional decoders over the sprite-mask and the sprite-colour region, then the
\* colour repack over the sprite-colour region, each once, and leaves the decryption of
\* the program ROM to the trigger.
C29_InitOrder ==
    [][DriverInitNow =>
          /\ CallsMade(init_log') =
                 ModuleCalls \o << <<"iga_u12_decode", "sprites_mask">>,
                                   <<"iga_u16_decode", "sprites_mask">>,
                                   <<"iga_u12_decode", "sprites_colour">>,
                                   <<"iga_u16_decode", "sprites_colour">>,
                                   <<"sprite_colour_decode", "sprites_colour">> >>
          /\ DecoderKeys(init_log')
          /\ has_decrypted' = 0
          /\ passes' = 0]_vars

\* C29 amended: DRIVER_INIT runs the module-layer transform over the program ROM (kov3
\* variants only), then both positional decoders over the sprite-mask region alone, then
\* the colour repack over the sprite-colour region, each once; on the sets keyed at run
\* time it leaves the program ROM as loaded, for the trigger to decrypt; on the others it
\* decrypts the program ROM itself, as its last step, and the trigger does nothing.
C29_InitOrderByTitle ==
    /\ [][DriverInitNow =>
             /\ CallsMade(init_log') =
                    ModuleCalls \o << <<"iga_u12_decode", "sprites_mask">>,
                                      <<"iga_u16_decode", "sprites_mask">>,
                                      <<"sprite_colour_decode", "sprites_colour">> >>
                    \o (IF title \in {"orleg2", "kov2nl"} THEN <<>>
                        ELSE << <<"decrypter_rom", "user1">> >>)
             /\ DecoderKeys(init_log')
             /\ sprites_mask' = IgaU16Decode(IgaU12Decode(sprites_mask, MaskLen(title), U12Key(title)),
                                             MaskLen(title), U16Key(title))
             /\ sprites_colour' = SpriteColourDecode(sprites_colour, ColourLen(title))
             /\ IF title \in {"orleg2", "kov2nl"}
                THEN rom' = rom /\ has_decrypted' = 0 /\ passes' = 0
                ELSE has_decrypted' = 1 /\ passes' = 1]_vars
    /\ [][~DriverInitNow => UNCHANGED <<sprites_mask, sprites_colour, init_log>>]_vars
    /\ [][last_op'.op = "encryption_do_w" =>
             IF title \in {"orleg2", "kov2nl"} /\ ~triggered
             THEN rom' = DecrypterRom(encryption_table, rom) /\ passes' = 1
             ELSE UNCHANGED <<rom, passes>>]_vars
    /\ [](passes <= 1)

\* DRIVER_INIT(kov3_102) has run over the tagged images: five calls, the module layer
\* first and decrypter_rom last, the words of the sprite regions changed
C29_Witness ==
    /\ last_op.op = "driver_init"
    /\ title = "kov3_102"
    /\ Len(init_log) = 5
    /\ init_log[1].xform = "decrypt_kov3_module"
    /\ init_log[5].xform = "decrypter_rom"
    /\ has_decrypted = 1
    /\ sprites_mask[4095] # TaggedImage(MaskSample(title))[4095]
    /\ sprites_mask[1] = BitSwap16(BitXor(4667, 15639, 16), DecodeOrder)
    /\ sprites_colour[1] = BitSwap16(4667, ColourOrder)

\* the masks decrypt_kov3_module is called with, by version
ShippedAddrMask == IF title = "kov3_104" THEN 1633393 ELSE IF title = "kov3_102" THEN 138551 ELSE 4098728
ShippedDataMask == IF title = "kov3_104" THEN 47261 ELSE IF title = "kov3_102" THEN 33232 ELSE 50480

\* C30: with the masks of each kov3 version, the module transform gives
\* dst[i] = src[i XOR addrMask] XOR dataMask for every word index i, from the contents
\* as loaded; i XOR addrMask is an index of the region, different for different i; and
\* the transform applied to its own result gives back the contents as loaded.
C30_ModuleTransform ==
    [][(DriverInitNow /\ title \in {"kov3_104", "kov3_102", "kov3_100"}) =>
          LET a == ShippedAddrMask
              d == ShippedDataMask
              words == 8388608
              out == DecryptKov3Module(rom, 2 * words, a, d, 0)
          IN  /\ ModuleAddrXor(title) = a
              /\ ModuleDataXor(title) = d
              /\ User1Bytes = 2 * words
              /\ words = Pow2(23)
              /\ a < words
              /\ \A i \in DOMAIN rom :
                     /\ BitXor(i, a, 32) < words
                     /\ BitXor(i, a, 32) \in DOMAIN rom
                     /\ out[i] = BitXor(rom[BitXor(i, a, 32)], d, 16)
              /\ \A i, j \in DOMAIN rom : i # j => BitXor(i, a, 32) # BitXor(j, a, 32)
              /\ {BitXor(i, a, 32) : i \in DOMAIN rom} = DOMAIN rom
              /\ DecryptKov3Module(out, 2 * words, a, d, 0) = rom
              /\ rom' = DecrypterRom(StaticKey(title), out)]_vars

\* DRIVER_INIT(kov3_104) has run over the tagged program ROM: word 0 comes from word
\* 0x18ec71 and the last word from word 0x7fffff ^ 0x18ec71
C30_Witness ==
    /\ last_op.op = "driver_init"
    /\ title = "kov3_104"
    /\ rom = DecrypterRom(StaticKey(title),
                          DecryptKov3Module(TaggedImage(ProgSample(title)), User1Bytes,
                                            1633393, 47261, 0))
    /\ rom # DecrypterRom(StaticKey(title), TaggedImage(ProgSample(title)))
    /\ rom[0] = BitXor(BitXor(TaggedImage(ProgSample(title))[1633393], 47261, 16),
                       BitXor(TableKey(StaticKey(title), 0), 42405, 16), 16)

\* the word with the bit order reversed inside each byte: 15<->8, 14<->9, ..., 7<->0, 6<->1, ...
ReverseInBytes(w) ==
    LET from(b) == IF b < 8 THEN 7 - b ELSE 23 - b
        bit(b) == (w \div (2 ^ from(b))) % 2
    IN  bit(0) + 2 * bit(1) + 4 * bit(2) + 8 * bit(3) + 16 * bit(4) + 32 * bit(5)
        + 64 * bit(6) + 128 * bit(7) + 256 * bit(8) + 512 * bit(9) + 1024 * bit(10)
        + 2048 * bit(11) + 4096 * bit(12) + 8192 * bit(13) + 16384 * bit(14) + 32768 * bit(15)

\* bit b of the base key xored with the table constant of every set bit among bits
\* 0 .. 10 of i >> 1: the parity of the ones met
MaskBit(table, i, key, b) ==
    LET field == (i \div 2) % 2048
        ones == {k \in 1 .. 11 : (field \div (2 ^ (k - 1))) % 2 = 1 /\ (table[k] \div (2 ^ b)) % 2 = 1}
    IN  (((key \div (2 ^ b)) % 2) + Cardinality(ones)) % 2

\* m(i): the 16 bits together
IndexMask(table, i, key) ==
    LET bit(b) == MaskBit(table, i, key, b)
    IN  bit(0) + 2 * bit(1) + 4 * bit(2) + 8 * bit(3) + 16 * bit(4) + 32 * bit(5)
        + 64 * bit(6) + 128 * bit(7) + 256 * bit(8) + 512 * bit(9) + 1024 * bit(10)
        + 2048 * bit(11) + 4096 * bit(12) + 8192 * bit(13) + 16384 * bit(14) + 32768 * bit(15)

\* the constants of the two decoders, as the source lists them
U12Constants == <<36868, 40, 386, 16, 8256, 2049, 0, 0, 16384, 1536, 0>>
U16Constants == <<16, 8196, 2049, 768, 128, 32, 16392, 4098, 1024, 64, 32768>>

\* the last step was a call of the decoder, and the arguments it was called with
DecoderNow(xform) == last_op'.op = xform
LastCall == init_log'[Len(init_log')]

\* the region after a decoder of the given phase and constants has visited it
Decoded(buf, phase, table, len, key) ==
    [i \in DOMAIN buf |->
        IF i % 2 = phase /\ i < len \div 2
        THEN ReverseInBytes(BitXor(buf[i], IndexMask(table, i, key), 16))
        ELSE buf[i]]

\* C31: each positional decoder replaces a visited word w at word index i by
\* P(w XOR m(i)), m(i) being the base key xored with the table constant of every set bit
\* among bits 0 .. 10 of i >> 1 and of no other bit of i, P reversing the bit order
\* inside each byte; iga_u12_decode visits exactly the even word indices below len / 2,
\* iga_u16_decode exactly the odd ones, and every other word is left as it was.
C31_PositionalDecoders ==
    /\ [][DecoderNow("iga_u12_decode") =>
             sprites_mask' = Decoded(sprites_mask, 0, U12Constants, LastCall.len, LastCall.key)]_vars
    /\ [][DecoderNow("iga_u16_decode") =>
             sprites_mask' = Decoded(sprites_mask, 1, U16Constants, LastCall.len, LastCall.key)]_vars
    /\ [](\A i \in DOMAIN sprites_mask : \A key \in DecodeKeys :
             /\ PosMask(U12Table, i, key, 1) = PosMask(U12Table, 2 * ((i \div 2) % 2048), key, 1)
             /\ PosMask(U16Table, i, key, 1) = PosMask(U16Table, 2 * ((i \div 2) % 2048), key, 1))

\* iga_u16_decode(src, 8192, 0x3d17) alone has run over the tagged image: the odd word
\* 4095, whose index has bits 0 .. 10 of i >> 1 set, is decoded; the even word 4094 and
\* the odd word 8195 past len / 2 are as loaded
C31_Witness ==
    /\ last_op.op = "iga_u16_decode"
    /\ Len(init_log) = 1
    /\ init_log[1].len = 8192
    /\ init_log[1].key = \h3D17
    /\ sprites_mask[4095] = 675
    /\ sprites_mask[4094] = 33318
    /\ sprites_mask[8195] = 62025
    /\ sprites_mask[3] # TaggedImage(DecodeSample)[3]

\* the word of index i after exactly one decoder has transformed it: iga_u12_decode
\* the even ones, iga_u16_decode the odd ones
DecodedOnce(w, i, key12, key16) ==
    IF i % 2 = 0
    THEN ReverseInBytes(BitXor(w, IndexMask(U12Constants, i, key12), 16))
    ELSE ReverseInBytes(BitXor(w, IndexMask(U16Constants, i, key16), 16))

\* C32: applied to the same buffer with the same length, iga_u12_decode and
\* iga_u16_decode give the same result in either order, and together they transform
\* every word of the region exactly once: no index is visited by both and every word
\* index below len / 2, which is every word of the region, is visited by one of them.
C32_DecodersCommuteAndCover ==
    [][DriverInitNow =>
          LET len == MaskLen(title)
              k12 == U12Key(title)
              k16 == U16Key(title)
              first == IgaU12Decode(sprites_mask, len, k12)
              second == IgaU16Decode(sprites_mask, len, k16)
              changed12 == {i \in DOMAIN sprites_mask : first[i] # sprites_mask[i]}
              changed16 == {i \in DOMAIN sprites_mask : second[i] # sprites_mask[i]}
          IN  /\ sprites_mask' = IgaU16Decode(first, len, k16)
              /\ sprites_mask' = IgaU12Decode(second, len, k12)
              /\ changed12 \cap changed16 = {}
              /\ \A i \in DOMAIN sprites_mask :
                     /\ i < len \div 2
                     /\ sprites_mask'[i] = DecodedOnce(sprites_mask[i], i, k12, k16)
              /\ (len \div 2) - 1 \in DOMAIN sprites_mask]_vars

\* DRIVER_INIT(ddpdojh) has run over the tagged image: the even word 4094 is decoded
\* with the key of iga_u12_decode, the odd word 4095 with the key of iga_u16_decode
C32_Witness ==
    /\ last_op.op = "driver_init"
    /\ title = "ddpdojh"
    /\ init_log[1].xform = "iga_u12_decode"
    /\ init_log[2].xform = "iga_u16_decode"
    /\ init_log[1].len = init_log[2].len
    /\ sprites_mask[4094] = 50930
    /\ sprites_mask[4095] = 57202

\* the register an access to the window at word offset a selects
WindowReg(a) == (a \div 32768) % 8

\* the registers once a write has stored its data under its mask
StoredRegs(regs, a, d, m) ==
    [regs EXCEPT ![WindowReg(a)] = Or32(And32(@, Not32(m)), And32(d, m))]

\* C33: an access to the MCU window selects register (offset >> 15) & 7. A read gives
\* the register's value and changes nothing. A write stores; it issues the command
\* whose byte register 0 holds at that moment exactly when it targets register 2 and
\* leaves it nonzero, it acknowledges exactly when it targets register 5 and leaves it
\* nonzero, and in every other case the store is all it does.
C33_WindowDispatch ==
    /\ [][last_op'.op = "mcu_r" =>
             /\ read_value' = mcu_regs[WindowReg(last_op'.a)]
             /\ UNCHANGED <<mcuVars, shareram, share_bank, cards, timerVars, cryptVars,
                            spriteVars, machineVars>>]_vars
    /\ [][last_op'.op = "mcu_w" =>
             LET reg == WindowReg(last_op'.a)
                 stored == StoredRegs(mcu_regs, last_op'.a, last_op'.d, last_op'.m)
                 cmd == stored[0][1]
             IN  /\ \A r \in (0 .. 7) \ {3, 4} : mcu_regs'[r] = stored[r]
                 /\ CASE reg = 2 /\ stored[2] # Zero32 ->
                             /\ armer' = [by |-> "command", cmd |-> cmd,
                                          delay |-> IF cmd = 224 THEN 30000 ELSE 1000]
                             /\ arms' = Counted(arms)
                             /\ since_arm' = 0
                             /\ mcu_last_cmd' = (IF cmd = 246 THEN 0 ELSE cmd)
                             /\ cmd = 224 => mcu_result0' = stored[0] /\ mcu_result1' = stored[1]
                      [] reg = 5 /\ stored[5] # Zero32 ->
                             /\ UNCHANGED <<mcu_result0, mcu_result1, shareram, share_bank, cards>>
                             /\ IF mcu_last_cmd # 0
                                THEN /\ armer'.by = "ack"
                                     /\ arms' = Counted(arms)
                                     /\ mcu_last_cmd' = 0
                                     /\ mcu_regs'[3][3] = 242
                                ELSE /\ mcu_regs' = stored
                                     /\ UNCHANGED <<mcu_last_cmd, timerVars>>
                      [] OTHER ->
                             /\ mcu_regs' = stored
                             /\ UNCHANGED <<mcu_result0, mcu_result1, mcu_last_cmd, shareram,
                                            share_bank, cards, timerVars>>]_vars

\* 0xE0 was issued by a strobe on register 2, then a write of the lower half of
\* register 2, at an offset that is no multiple of 0x8000, left the register zero: it
\* issued nothing, the one completion armed is the strobe's
C33_Witness ==
    /\ last_op.op = "mcu_w"
    /\ last_op.a = 2 * 32768 + 5
    /\ last_op.m = W32(0, 0, 255, 255)
    /\ mcu_regs[2] = Zero32
    /\ mcu_regs[0] = W32(\h12, \h34, \h56, \hE0)
    /\ mcu_last_cmd = 224
    /\ mcu_result0 = W32(\h12, \h34, \h56, \hE0)
    /\ arms = 1
    /\ armer.by = "command"

\* C34: every index used on the 256-byte share RAM lies in 0 .. 255: those of
\* shareram_r and shareram_w for every selector and offset of the window, and those of
\* every MCU command for every selector and every length argument up to 255.
C34_ShareIndicesInRange ==
    /\ mcu_touched \subseteq 0 .. 255
    /\ last_op.op \in {"shareram_r", "shareram_w"} =>
           last_op.a + (share_bank % 2) * 128 \in 0 .. 255

\* the last step was machine_reset()
ResetNow == last_op.op = "machine_reset"

\* C35: lastCommand is always 0 or the low byte register 0 held at the most recent
\* issue, and never 0xF6; an issue sets it to the command byte, or to 0 for 0xF6; it
\* becomes nonzero only by an issue, and returns to 0 only by an issue of 0xF6 or of
\* command byte 0x00, by an acknowledge, or by a machine reset.
C35_LastCommand ==
    /\ [](mcu_last_cmd # 246)
    /\ [](mcu_last_cmd # 0 => (armer.by = "command" /\ armer.cmd = mcu_last_cmd))
    /\ [][IssuedNow' => mcu_last_cmd' = (IF CmdByte' = 246 THEN 0 ELSE CmdByte')]_vars
    /\ [][~IssuedNow' => mcu_last_cmd' \in {0, mcu_last_cmd}]_vars
    /\ [][(mcu_last_cmd # 0 /\ mcu_last_cmd' = 0) =>
             \/ IssuedNow' /\ CmdByte' \in {0, 246}
             \/ AckedNow'
             \/ ResetNow']_vars

\* 0xE0 was issued and a machine reset followed: lastCommand is 0 again while register 0
\* still holds the command and its completion is still armed
C35_Witness ==
    /\ ResetNow
    /\ mcu_last_cmd = 0
    /\ mcu_regs[0][1] = 224
    /\ armer.by = "command"
    /\ armer.cmd = 224
    /\ mcu_timer = 30000

\* C36: machine reset sets the raw sprite key, the real sprite key, lastCommand and the
\* bank selector to 0 - the real key to 0 itself, which is not what a key write of 0
\* derives - and leaves the encryption table, the decrypt flag, the eight MCU registers,
\* result0, result1 and the share RAM as they are.
C36_ResetFrame ==
    [][ResetNow' =>
          /\ spritekey' = Zero32
          /\ realspritekey' = Zero32
          /\ realspritekey' # RealSpriteKey(Zero32)
          /\ RealSpriteKey(Zero32) = W32(\hAA, \hAA, \hA0, \h09)
          /\ mcu_last_cmd' = 0
          /\ share_bank' = 0
          /\ UNCHANGED <<encryption_table, has_decrypted, mcu_regs, mcu_result0, mcu_result1,
                         shareram>>]_vars

\* a machine reset after the table was written, the ROM decrypted, 0xE0 issued and a
\* byte stored in share RAM: the keys, lastCommand and the selector are 0, the rest is
\* as it was
C36_Witness ==
    /\ ResetNow
    /\ spritekey = Zero32
    /\ realspritekey = Zero32
    /\ mcu_last_cmd = 0
    /\ share_bank = 0
    /\ encryption_table[0] = 60
    /\ has_decrypted = 1
    /\ mcu_regs[0] = W32(\h12, \h34, \h56, \hE0)
    /\ mcu_regs[2] = Widen(1)
    /\ mcu_result0 = W32(\h12, \h34, \h56, \hE0)
    /\ shareram[0] = 60

\* the handlers the claim lists as leaving the results alone
ResultKeepers ==
    {"mcu_r", "share_bank_w", "shareram_r", "shareram_w", "time", "igs_interrupt2",
     "igs_interrupt", "encryption_w", "encryption_do_w", "sprite_encryption_w", "machine_reset"}

\* C37: result0 and result1 change only in a step that issues a command: an
\* acknowledge, a timer firing, a bank-select write, a share-RAM access, a register write
\* that does not strobe, a sprite-key, table or trigger write and a machine reset leave
\* both as they are, and so does an issue of 0xF6, which returns them: result1 in
\* register 4 and result0, under the status field, in register 3.
C37_ResultsChangeOnlyOnIssue ==
    /\ [][~IssuedNow' => UNCHANGED <<mcu_result0, mcu_result1>>]_vars
    /\ [][last_op'.op \in ResultKeepers => UNCHANGED <<mcu_result0, mcu_result1>>]_vars
    /\ [][(last_op'.op = "mcu_w" /\ ~(WindowReg(last_op'.a) = 2 /\ mcu_regs'[2] # Zero32)) =>
             UNCHANGED <<mcu_result0, mcu_result1>>]_vars
    /\ [][(IssuedNow' /\ CmdByte' = 246) =>
             /\ UNCHANGED <<mcu_result0, mcu_result1>>
             /\ mcu_regs'[4] = mcu_result1
             /\ \A k \in {1, 2, 4} : mcu_regs'[3][k] = mcu_result0[k]]_vars

\* 0xE0 latched registers 0 and 1; its completion fired, the table and the sprite key
\* were written and the machine was reset: both results are still the latched words
C37_Witness ==
    /\ ResetNow
    /\ fires = 1
    /\ encryption_table[0] = 60
    /\ mcu_regs[1] = W32(\hCA, \hFE, 0, 1)
    /\ mcu_result0 = W32(\h12, \h34, \h56, \hE0)
    /\ mcu_result1 = W32(\hCA, \hFE, 0, 1)
    /\ mcu_last_cmd = 0
    /\ mcu_timer = NotArmed

=============================================================================
